---- MODULE Spec2Model ----
(***************************************************************************)
(* Grade-book lifecycle and grade aggregation of the LXP grading core:     *)
(* GradeBookService, ClassService, SubjectGradeManager and the record      *)
(* store they talk to (Prisma: committed tables, interactive transactions, *)
(* unique keys and foreign keys).                                          *)
(*                                                                         *)
(* Numbers that the code divides are exact rationals <<n, d>> (d > 0, in   *)
(* lowest terms), so a quotient is never rounded away by the model.        *)
(***************************************************************************)
EXTENDS Integers, Sequences, FiniteSets, TLC

VARIABLES classes,            \* Class rows
          gradeBooks,         \* GradeBook rows
          subjectRecords,     \* SubjectGradeRecord rows
          assessmentSystems,  \* ids of the AssessmentSystem rows
          termResults,        \* TermResult rows
          gradeHistory,       \* GradeHistory rows
          enforceFK,          \* whether the store checks foreign keys
          calcIn,             \* termAssessmentPeriod weights, activitySubmission rows
          groupSettings,        \* the class group's term and assessment settings rows
          running,            \* the calls in flight, each at its position
          activityGrades,     \* ActivityGrade rows
          termStructureRows,  \* ProgramTermStructure rows with their AcademicTerm rows
          classGroupTermSettings,  \* ClassGroupTermSettings rows of every class group
          cache,              \* CacheManager.cache: the entries in insertion order
          now,                \* Date.now()
          lastOp              \* the last call: operation, arguments, error, result

\* the tables and the cache that the grade-book lifecycle leaves alone
ext == <<activityGrades, termStructureRows, classGroupTermSettings, cache, now>>

vars == <<classes, gradeBooks, subjectRecords, assessmentSystems,
          termResults, gradeHistory, enforceFK, calcIn, groupSettings, running,
          ext, lastOp>>

NULL == "null"

\* ------------------------------------------------------------------------
\* Bounds of the model
\* ------------------------------------------------------------------------
MaxSubs == 2
MaxNewClasses == 1
MaxHistory == 2
MaxBatchSize == 2

\* ------------------------------------------------------------------------
\* Exact rational arithmetic (JavaScript number arithmetic on the values
\* the model uses)
\* ------------------------------------------------------------------------
Abs(x) == IF x < 0 THEN -x ELSE x

RECURSIVE GCD(_, _)
GCD(a, b) == IF b = 0 THEN a ELSE GCD(b, a % b)

Rat(n, d) ==
    LET g == GCD(Abs(n), Abs(d))
        s == IF d < 0 THEN -1 ELSE 1
    IN  <<(s * n) \div g, (s * d) \div g>>

RInt(n) == <<n, 1>>
RZero == <<0, 1>>
RAdd(a, b) == Rat(a[1] * b[2] + b[1] * a[2], a[2] * b[2])
RMul(a, b) == Rat(a[1] * b[1], a[2] * b[2])
RDiv(a, b) == Rat(a[1] * b[2], a[2] * b[1])
RGeq(a, b) == a[1] * b[2] >= b[1] * a[2]
RGt(a, b) == a[1] * b[2] > b[1] * a[2]
RIsZero(a) == a[1] = 0

\* ------------------------------------------------------------------------
\* Reference data read by the grading core (rows of tables the core only
\* reads): subjects, terms, assessment periods, students
\* ------------------------------------------------------------------------
Subjects == {"A", "B"}
Students == {"s1", "s2", "s3"}
TermIds == {"T1", "T2"}
PeriodIds == {"P1", "P2", "P3"}

\* subject.credits; a subject without a credit value or an unknown subject
\* gives `subject?.credits || 0`
SubjectCredits(subjectId) ==
    CASE subjectId = "A" -> 3
      [] subjectId = "B" -> 2
      [] OTHER -> 0

\* termAssessmentPeriod rows: P1, P2 belong to T1, P3 to T2
PeriodTerm(p) == IF p = "P3" THEN "T2" ELSE "T1"
PeriodStart(p) == CASE p = "P1" -> 1 [] p = "P2" -> 3 [] OTHER -> 5
PeriodEnd(p) == CASE p = "P1" -> 2 [] p = "P2" -> 4 [] OTHER -> 6
PeriodOrder == <<"P1", "P2", "P3">>

Weights == {0, 1, 2}

DefaultPeriodWeights == [p \in PeriodIds |-> CASE p = "P1" -> 1 [] p = "P2" -> 2 [] OTHER -> 0]

\* ------------------------------------------------------------------------
\* activitySubmission rows: one student's attempt at one activity; `kind`
\* is the type of the activity's assessment ("NONE": the activity has no
\* assessment), rubricScores is <<awarded, maximum>> or <<>> when absent
\* ------------------------------------------------------------------------
Sub(st, sj, at, g, o, t, k, r) ==
    [studentId |-> st, subjectId |-> sj, createdAt |-> at, graded |-> g,
     obtainedMarks |-> o, totalMarks |-> t, kind |-> k, rubricScores |-> r]

SubmissionRows ==
    { Sub("s1", "A", 1, TRUE, 80, 100, "MARKING_SCHEME", <<>>),
      Sub("s1", "A", 1, TRUE, 50, 100, "MARKING_SCHEME", <<>>),
      Sub("s1", "A", 3, TRUE, 50, 100, "MARKING_SCHEME", <<>>),
      Sub("s1", "A", 2, TRUE, 40, 100, "OTHER", <<>>),
      Sub("s1", "A", 1, TRUE, 0, 100, "MARKING_SCHEME", <<>>),
      Sub("s1", "A", 1, TRUE, 30, 50, "NONE", <<>>),
      Sub("s1", "A", 2, TRUE, 0, 0, "RUBRIC", <<3, 10>>),
      Sub("s1", "A", 2, TRUE, 20, 100, "RUBRIC", <<>>),
      Sub("s1", "A", 1, FALSE, 90, 100, "MARKING_SCHEME", <<>>),
      Sub("s2", "A", 1, TRUE, 90, 100, "MARKING_SCHEME", <<>>),
      Sub("s1", "A", 5, TRUE, 90, 100, "MARKING_SCHEME", <<>>) }

RECURSIVE SeqsUpTo(_, _)
SeqsUpTo(S, n) ==
    IF n = 0 THEN { <<>> }
    ELSE LET shorter == SeqsUpTo(S, n - 1)
         IN  shorter \cup { Append(q, x) : q \in shorter, x \in S }

\* ------------------------------------------------------------------------
\* Reference data of the class hierarchy: programs, class groups, term
\* structures, override rows
\* ------------------------------------------------------------------------
ClassGroupIds == {"g1", "g2", "g3", "g4"}
TermStructureIds == {"ts1", "ts2"}
CloneIds == <<"k1", "k2", "k3">>
NewClassIds == <<"n1", "n2", "n3">>
GradeBookIds == <<"b1", "b2", "b3", "b4", "b5", "b6">>
AssessmentSystemIds == {"as1", "as3"} \cup { CloneIds[i] : i \in DOMAIN CloneIds }

\* classGroup.programId
GroupProgram(g) ==
    CASE g = "g1" -> "p1" [] g = "g2" -> "p2" [] g = "g3" -> "p3" [] OTHER -> "p1"

\* classGroup.subjects: g1 teaches A and B, the other groups no subject yet
GroupSubjects(g) == IF g = "g1" THEN <<"A", "B">> ELSE <<>>

\* program.assessmentSystem (<<>> : the program has none): p2 has none
ProgramAssessmentSystem(p) ==
    CASE p = "p1" -> <<[id |-> "as1", name |-> "Marks", type |-> "MARKING_SCHEME"]>>
      [] p = "p3" -> <<[id |-> "as3", name |-> "Rubric", type |-> "RUBRIC"]>>
      [] OTHER -> <<>>

\* the marking scheme of an assessment system: <<passingMarks, maxMarks>>,
\* <<>> for a system without one (as3 is a rubric system)
MarkingScheme(assessmentSystemId) ==
    IF assessmentSystemId = "as1" THEN <<40, 100>> ELSE <<>>

\* program.termStructures, in the order the store returns them: p3 has none
ProgramTermStructures(p) ==
    CASE p = "p1" -> <<"ts1">> [] p = "p2" -> <<"ts2">> [] OTHER -> <<>>

\* programTermStructure.academicTerms
TermStructureTerms(ts) == IF ts = "ts1" THEN <<"T1", "T2">> ELSE <<>>

\* classGroup.termSettings (ClassGroupTermSettings rows, with programTerm)
GroupTermSettings(g) ==
    IF g \in {"g1", "g4"}
    THEN <<[programTerm |-> "ts1", customSettings |-> NULL]>>
    ELSE <<>>

\* classGroup.assessmentSettings (ClassGroupAssessmentSettings rows); the
\* customSettings payload is a record of the overridden fields
GroupAssessmentSettings(g) ==
    IF g = "g4"
    THEN <<[assessmentSystemId |-> "as1", isCustomized |-> TRUE,
            customSettings |-> [name |-> "Marks (g4)"]]>>
    ELSE <<>>

\* ------------------------------------------------------------------------
\* The record store.  A handler runs on a context: `c` the committed
\* tables, `t` the tables as the handler's open transaction sees them (its
\* own uncommitted writes included), `err` the error thrown so far.  A call
\* through the transaction client reads and writes `t`; a call through the
\* plain client reads `c` and writes both.  Outside a transaction c = t.
\* ------------------------------------------------------------------------
\* what a cumulative calculation returns (all zero when nothing is returned)
CumulativeGradeData(gpa, totalCredits, earnedCredits) ==
    [gpa |-> gpa, totalCredits |-> totalCredits, earnedCredits |-> earnedCredits]
NoResult == CumulativeGradeData(<<0, 1>>, 0, 0)

Op(op, args, error, result) == [op |-> op, args |-> args, error |-> error, result |-> result]
NoOp == Op("none", <<>>, "none", NoResult)

\* no settings row under resolution, no call in flight
NoSettings == [term |-> <<>>, assessment |-> <<>>]
Idle == {}

\* no program term structure (termSeq: the academic terms created so far)
NoProgramTerms == [structures |-> <<>>, termSeq |-> 0]

\* no activity grade, no term structure or term-settings row under update,
\* an empty cache
NoExt ==
    /\ activityGrades = {}
    /\ termStructureRows = NoProgramTerms
    /\ classGroupTermSettings = {}
    /\ cache = <<>>
    /\ now = 0

Tables ==
    [classes |-> classes, gradeBooks |-> gradeBooks, subjectRecords |-> subjectRecords,
     assessmentSystems |-> assessmentSystems, termResults |-> termResults,
     gradeHistory |-> gradeHistory]

Begin(db) == [c |-> db, t |-> db, err |-> "none"]

View(ctx, via) == IF via = "tx" THEN ctx.t ELSE ctx.c

Throw(ctx, e) == [ctx EXCEPT !.err = e]

Put(ctx, via, table, rows) ==
    [ctx EXCEPT !.t[table] = @ \cup rows,
                !.c[table] = IF via = "db" THEN @ \cup rows ELSE @]

\* The mutated end of a transaction: what was written stays written
EndTransactionNoRollback(ctx) == ctx.t

\* db.$transaction(fn): fn's writes are committed when fn returns and
\* discarded when it throws
EndTransaction(ctx) == IF ctx.err = "none" THEN ctx.t ELSE ctx.c

\* the element of a one-element set
Only(S) == CHOOSE r \in S : TRUE

\* one step of a handler: skipped once an error was thrown; the store call
\* of step i throws when the failure is injected there
Step(ctx, i, failAt, done) ==
    IF ctx.err # "none" THEN ctx
    ELSE IF failAt = i THEN Throw(ctx, "DbError")
    ELSE done

FirstFree(ids, used) ==
    ids[CHOOSE i \in DOMAIN ids :
          /\ ids[i] \notin used
          /\ \A j \in DOMAIN ids : j < i => ids[j] \in used]

NextClassId(db) == FirstFree(NewClassIds, { c.id : c \in db.classes })
NextGradeBookId(db) == FirstFree(GradeBookIds, { g.id : g \in db.gradeBooks })
NextCloneId(db) == FirstFree(CloneIds, db.assessmentSystems)

\* class.create
classCreate(ctx, via, id, classGroupId) ==
    IF enforceFK /\ classGroupId \notin ClassGroupIds THEN Throw(ctx, "ForeignKey")
    ELSE Put(ctx, via, "classes",
             {[id |-> id, classGroupId |-> classGroupId, termStructureId |-> NULL]})

\* class.update({ where: { id }, data: { termStructureId } })
classUpdate(ctx, via, id, termStructureId) ==
    LET SetTs(rows) == { IF r.id = id THEN [r EXCEPT !.termStructureId = termStructureId]
                         ELSE r : r \in rows }
    IN  IF ~\E r \in View(ctx, via).classes : r.id = id THEN Throw(ctx, "RecordNotFound")
        ELSE [ctx EXCEPT !.t.classes = SetTs(@),
                         !.c.classes = IF via = "db" THEN SetTs(@) ELSE @]

\* A key taken by a committed row is a unique-constraint error; a key taken
\* only by the open transaction's uncommitted row makes a plain-client
\* write wait for that transaction, which is waiting for the write
KeyConflict(via, takenInView, takenInTransaction) ==
    IF takenInView THEN "UniqueConstraint"
    ELSE IF via = "db" /\ takenInTransaction THEN "LockTimeout"
    ELSE "none"

GradeBookOfClass(db, classId) == \E g \in db.gradeBooks : g.classId = classId

SubjectRecordOf(db, gradeBookId, subjectSeq) ==
    \E r \in db.subjectRecords, i \in DOMAIN subjectSeq :
        r.gradeBookId = gradeBookId /\ r.subjectId = subjectSeq[i]

\* gradeBook.create: classId is unique (the rows are looked up and updated
\* by classId alone); classId, assessmentSystemId and termStructureId
\* reference other rows
gradeBookCreate(ctx, via, classId, assessmentSystemId, termStructureId) ==
    LET v == View(ctx, via)
        conflict == KeyConflict(via, GradeBookOfClass(v, classId),
                                GradeBookOfClass(ctx.t, classId))
    IN  IF conflict # "none" THEN Throw(ctx, conflict)
        ELSE IF enforceFK /\ (\/ ~\E c \in v.classes : c.id = classId
                              \/ assessmentSystemId \notin v.assessmentSystems
                              \/ termStructureId \notin TermStructureIds)
        THEN Throw(ctx, "ForeignKey")
        ELSE Put(ctx, via, "gradeBooks",
                 {[id |-> NextGradeBookId(ctx.t), classId |-> classId,
                   assessmentSystemId |-> assessmentSystemId,
                   termStructureId |-> termStructureId]})

\* JSON columns of a SubjectGradeRecord: fmt is "object" (a JSON object),
\* "string" (a JSON string holding JSON.stringify of the object) or "null"
\* (Prisma.JsonNull); keys are the object's keys (term ids / period ids)
\* and val maps them to grades
Json(fmt, keys, val) == [fmt |-> fmt, keys |-> keys, val |-> val]
EmptyObject == Json("object", {}, <<>>)
JsonNull == Json("null", {}, <<>>)

AutoId(n) == [kind |-> "auto", n |-> n, gradeBookId |-> "", subjectId |-> ""]
CompositeId(gradeBookId, subjectId) ==
    [kind |-> "composite", n |-> 0, gradeBookId |-> gradeBookId, subjectId |-> subjectId]

SubjectRecordRows(db, gradeBookId, subjectSeq, termGrades, periodGrades) ==
    { [id |-> AutoId(Cardinality(db.subjectRecords) + i),
       gradeBookId |-> gradeBookId, subjectId |-> subjectSeq[i],
       termGrades |-> termGrades, assessmentPeriodGrades |-> periodGrades]
      : i \in DOMAIN subjectSeq }

\* subjectGradeRecord.create / createMany with generated ids:
\* (gradeBookId, subjectId) is unique, gradeBookId references a GradeBook
subjectRecordCreateMany(ctx, via, gradeBookId, subjectSeq, termGrades, periodGrades) ==
    LET v == View(ctx, via)
        conflict == KeyConflict(via, SubjectRecordOf(v, gradeBookId, subjectSeq),
                                SubjectRecordOf(ctx.t, gradeBookId, subjectSeq))
    IN  IF subjectSeq = <<>> THEN ctx
        ELSE IF conflict # "none" THEN Throw(ctx, conflict)
        ELSE IF enforceFK /\ ~\E g \in v.gradeBooks : g.id = gradeBookId
        THEN Throw(ctx, "ForeignKey")
        ELSE Put(ctx, via, "subjectRecords",
                 SubjectRecordRows(ctx.t, gradeBookId, subjectSeq, termGrades, periodGrades))

\* ------------------------------------------------------------------------
\* AssessmentService (scoring of one submission, grade-point table)
\* ------------------------------------------------------------------------
\* fixed-marks scheme: obtained / max(1, total) * 100
calculatePercentageFromMarkingScheme(obtained, total) ==
    RMul(RDiv(RInt(obtained), RInt(IF total > 1 THEN total ELSE 1)), RInt(100))

\* rubric: awarded / maximum * 100, or 0 when the maximum is 0
calculatePercentageFromRubric(scores) ==
    IF scores[2] = 0 THEN RZero
    ELSE RMul(RDiv(RInt(scores[1]), RInt(scores[2])), RInt(100))

\* percentage -> grade points through the assessment system's band table;
\* an id that names no assessment system has no table and maps to 0
calculateGPA(percentage, assessmentSystemId) ==
    IF assessmentSystemId \notin AssessmentSystemIds THEN RZero
    ELSE IF RGeq(percentage, RInt(70)) THEN RInt(3)
    ELSE IF RGeq(percentage, RInt(40)) THEN RInt(2)
    ELSE RZero

\* ------------------------------------------------------------------------
\* SubjectGradeManager: period and term aggregation
\* ------------------------------------------------------------------------
\* db.termAssessmentPeriod.findUnique({ where: { id } }); `found` is FALSE
\* for the null result
findPeriod(weights, periodId) ==
    IF periodId \in PeriodIds
    THEN [found |-> TRUE, id |-> periodId, termId |-> PeriodTerm(periodId),
          startDate |-> PeriodStart(periodId), endDate |-> PeriodEnd(periodId),
          weight |-> weights[periodId]]
    ELSE [found |-> FALSE]

\* The mutated query: submissions that were never graded are found too
findSubmissionsUngraded(subs, subjectId, period, studentId) ==
    SelectSeq(subs, LAMBDA s:
        /\ s.subjectId = subjectId
        /\ s.studentId = studentId
        /\ (period.found => s.createdAt >= period.startDate /\ s.createdAt <= period.endDate))

\* db.activitySubmission.findMany: the activity's subject, the activity's
\* creation date inside the period (no date filter when the period is
\* missing: gte/lte undefined), the student, graded only
findSubmissions(subs, subjectId, period, studentId) ==
    SelectSeq(subs, LAMBDA s:
        /\ s.subjectId = subjectId
        /\ s.studentId = studentId
        /\ s.graded
        /\ (period.found => s.createdAt >= period.startDate /\ s.createdAt <= period.endDate))

\* one pass of the loop over the submissions: `percentage` is assigned, not
\* accumulated; the marks are summed
ScoreStep(acc, s) ==
    LET pct ==
          CASE s.kind = "NONE" -> acc.percentage
            [] s.kind = "MARKING_SCHEME" ->
                 calculatePercentageFromMarkingScheme(s.obtainedMarks, s.totalMarks)
            [] s.kind = "RUBRIC" ->
                 IF s.rubricScores # <<>>
                 THEN calculatePercentageFromRubric(s.rubricScores)
                 ELSE acc.percentage
            [] OTHER ->
                 RMul(RDiv(RInt(s.obtainedMarks),
                           RInt(IF s.totalMarks > 1 THEN s.totalMarks ELSE 1)),
                      RInt(100))
    IN  [percentage |-> pct,
         totalObtained |-> acc.totalObtained + s.obtainedMarks,
         totalPossible |-> acc.totalPossible + s.totalMarks]

RECURSIVE ScoreLoop(_, _)
ScoreLoop(acc, subs) ==
    IF subs = <<>> THEN acc
    ELSE ScoreLoop(ScoreStep(acc, Head(subs)), Tail(subs))

\* finalPercentage = percentage || (totalPossible > 0 ? obtained/possible*100 : 0)
FinalPercentage(acc) ==
    IF ~RIsZero(acc.percentage) THEN acc.percentage
    ELSE IF acc.totalPossible > 0
    THEN RMul(RDiv(RInt(acc.totalObtained), RInt(acc.totalPossible)), RInt(100))
    ELSE RZero

calculateAssessmentPeriodGrade(weights, subs, subjectId, periodId, studentId, assessmentSystemId) ==
    LET period == findPeriod(weights, periodId)
        found == findSubmissions(subs, subjectId, period, studentId)
        Grade(acc, finalPercentage) ==
            [periodId |-> periodId,
             obtainedMarks |-> acc.totalObtained,
             totalMarks |-> acc.totalPossible,
             percentage |-> finalPercentage,
             weight |-> IF period.found THEN period.weight ELSE 0,
             isPassing |-> RGeq(finalPercentage, RInt(50)),
             gradePoints |-> calculateGPA(finalPercentage, assessmentSystemId)]
    IN  Only({ Only({ Grade(acc, finalPercentage)
                      : finalPercentage \in {FinalPercentage(acc)} })
               : acc \in { ScoreLoop([percentage |-> RZero, totalObtained |-> 0,
                                      totalPossible |-> 0], found) } })

\* db.termAssessmentPeriod.findMany({ where: { termId } })
findPeriodsOfTerm(termId) ==
    SelectSeq(PeriodOrder, LAMBDA p: PeriodTerm(p) = termId)

\* The mutated accumulation: every period counts the same, its weight ignored
TermStepUnweighted(acc, grade) ==
    [weightedTotal |-> RAdd(acc.weightedTotal, grade.percentage),
     weightSum |-> acc.weightSum + 1,
     totalMarks |-> acc.totalMarks + grade.totalMarks]

\* weightedTotal += grade.percentage * grade.weight; weightSum += grade.weight
TermStep(acc, grade) ==
    [weightedTotal |-> RAdd(acc.weightedTotal, RMul(grade.percentage, RInt(grade.weight))),
     weightSum |-> acc.weightSum + grade.weight,
     totalMarks |-> acc.totalMarks + grade.totalMarks]

\* the loop over the term's periods, on the period grades in their order
RECURSIVE TermLoop(_, _)
TermLoop(acc, grades) ==
    IF grades = <<>> THEN acc
    ELSE Only({ TermLoop(TermStep(a, Head(grades)), Tail(grades)) : a \in {acc} })

calculateSubjectTermGrade(weights, subs, subjectId, termId, studentId, assessmentSystemId) ==
    LET periods == findPeriodsOfTerm(termId)
        Grade(grades, acc, finalPercentage) ==
            [termId |-> termId,
             periodGrades |-> [p \in { periods[i] : i \in DOMAIN periods } |->
                                 grades[CHOOSE i \in DOMAIN periods : periods[i] = p]],
             finalGrade |-> finalPercentage,
             totalMarks |-> acc.totalMarks,
             percentage |-> finalPercentage,
             isPassing |-> RGeq(finalPercentage, RInt(50)),
             gradePoints |-> calculateGPA(finalPercentage, assessmentSystemId),
             credits |-> SubjectCredits(subjectId)]
        Final(grades, acc) ==
            Only({ Grade(grades, acc, finalPercentage)
                   : finalPercentage \in { IF acc.weightSum > 0
                                           THEN RDiv(acc.weightedTotal, RInt(acc.weightSum))
                                           ELSE RZero } })
        Loop(grades) ==
            Only({ Final(grades, acc)
                   : acc \in { TermLoop([weightedTotal |-> RZero, weightSum |-> 0,
                                         totalMarks |-> 0], grades) } })
    IN  Only({ Loop(grades)
               : grades \in { [i \in DOMAIN periods |->
                                 calculateAssessmentPeriodGrade(
                                   weights, subs, subjectId, periods[i], studentId,
                                   assessmentSystemId)] } })

\* ------------------------------------------------------------------------
\* Settings inheritance read by the grade-book lifecycle
\* ------------------------------------------------------------------------
\* { ...base, ...custom }
MergeRecords(base, custom) ==
    [f \in DOMAIN base \cup DOMAIN custom |->
        IF f \in DOMAIN custom THEN custom[f] ELSE base[f]]

\* TermManagementService.inheritClassGroupTerms: the term structure of the
\* class group's first term-settings row, else the program's first one
inheritClassGroupTerms(classGroupId) ==
    IF classGroupId \notin ClassGroupIds THEN [err |-> "NotFound:ClassGroup", id |-> ""]
    ELSE LET settings == GroupTermSettings(classGroupId)
             programTerms == ProgramTermStructures(GroupProgram(classGroupId))
         IN  IF settings # <<>> THEN [err |-> "none", id |-> settings[1].programTerm]
             ELSE IF programTerms # <<>> THEN [err |-> "none", id |-> programTerms[1]]
             ELSE [err |-> "NotFound:TermStructure", id |-> ""]

\* GradeBookService.resolveAndInheritAssessmentSystem: the program's
\* assessment system with the class group's customized settings spread over it
resolveAndInheritAssessmentSystem(classGroupId) ==
    IF classGroupId \notin ClassGroupIds THEN [err |-> "NotFound:ClassGroup", id |-> ""]
    ELSE LET base == ProgramAssessmentSystem(GroupProgram(classGroupId))
             rows == GroupAssessmentSettings(classGroupId)
             mine == SelectSeq(rows, LAMBDA r : base # <<>> /\ r.assessmentSystemId = base[1].id)
             final == IF mine # <<>> /\ mine[1].isCustomized
                      THEN MergeRecords(base[1], mine[1].customSettings)
                      ELSE base[1]
         IN  IF base = <<>> THEN [err |-> "NotFound:AssessmentSystem", id |-> ""]
             ELSE [err |-> "none", id |-> final.id]

\* GradeBookService.resolveAndInheritAssessmentSystem, the version that
\* copies the program's assessment system into a new row for the class
resolveAndInheritAssessmentSystemClone(ctx, classGroupId, cloneId) ==
    IF \/ classGroupId \notin ClassGroupIds
       \/ ProgramAssessmentSystem(GroupProgram(classGroupId)) = <<>>
    THEN Throw(ctx, "NotFound:AssessmentSystem")
    ELSE Put(ctx, "tx", "assessmentSystems", {cloneId})

\* GradeBookService.resolveAssessmentSystem(classData):
\* `const { program, classGroup } = classData.classGroup` takes `classGroup`
\* from the class-group row, which has no such property; the lookup's where
\* clause then reads `classGroup.id` of undefined
resolveAssessmentSystem(classGroupId) ==
    LET classGroupOfClassGroup == <<>>
    IN  IF classGroupOfClassGroup = <<>> THEN [err |-> "TypeError", id |-> ""]
        ELSE resolveAndInheritAssessmentSystem(classGroupId)

\* ------------------------------------------------------------------------
\* SubjectGradeManager.initializeSubjectGrades and its zeroed grades
\* ------------------------------------------------------------------------
ZeroTermGrade ==
    [totalMarks |-> 0, obtainedMarks |-> 0, percentage |-> RZero, grade |-> NULL,
     periodGrades |-> EmptyObject, finalGrade |-> RZero, isPassing |-> FALSE,
     gradePoints |-> RZero, credits |-> 0]

ZeroPeriodGrade(weight) ==
    [totalMarks |-> 0, obtainedMarks |-> 0, percentage |-> RZero, weight |-> weight,
     isPassing |-> FALSE, gradePoints |-> RZero]

TermsOf(termStructureId) ==
    { TermStructureTerms(termStructureId)[i] : i \in DOMAIN TermStructureTerms(termStructureId) }

PeriodsOf(termStructureId) == { p \in PeriodIds : PeriodTerm(p) \in TermsOf(termStructureId) }

initializeTermGrades(termStructureId) ==
    [t \in TermsOf(termStructureId) |-> ZeroTermGrade]

initializeAssessmentPeriodGrades(termStructureId) ==
    [p \in PeriodsOf(termStructureId) |-> ZeroPeriodGrade(calcIn.weights[p])]

\* termStructure is what the caller passes: `loaded` says whether it is a
\* term-structure object with its academicTerms (and their periods); an id
\* string or a row fetched without them has no academicTerms to flatMap
initializeSubjectGrades(ctx, via, gradeBookId, subjectId, termStructure) ==
    IF ~termStructure.loaded THEN Throw(ctx, "TypeError")
    ELSE subjectRecordCreateMany(ctx, via, gradeBookId, <<subjectId>>,
             Json("object", TermsOf(termStructure.id),
                  initializeTermGrades(termStructure.id)),
             Json("object", PeriodsOf(termStructure.id),
                  initializeAssessmentPeriodGrades(termStructure.id)))

RECURSIVE InitializeAllSubjectGrades(_, _, _, _, _)
InitializeAllSubjectGrades(ctx, via, gradeBookId, subjectSeq, termStructure) ==
    IF subjectSeq = <<>> \/ ctx.err # "none" THEN ctx
    ELSE InitializeAllSubjectGrades(
           initializeSubjectGrades(ctx, via, gradeBookId, Head(subjectSeq), termStructure),
           via, gradeBookId, Tail(subjectSeq), termStructure)

\* ------------------------------------------------------------------------
\* GradeBookService: creating a class with its grade book
\* ------------------------------------------------------------------------
\* initializeSubjectGradeRecords(tx, gradeBookId, classGroupId): one record
\* per subject of the class group, termGrades and assessmentPeriodGrades
\* empty ({} in GradeBookService.ts, JsonNull in its other version)
initializeSubjectGradeRecords(ctx, gradeBookId, classGroupId, emptyJson) ==
    IF classGroupId \notin ClassGroupIds THEN Throw(ctx, "NotFound:ClassGroup")
    ELSE subjectRecordCreateMany(ctx, "tx", gradeBookId, GroupSubjects(classGroupId),
                                 emptyJson, emptyJson)

\* createClassWithInheritance(classData) inside db.$transaction; `clone`
\* selects the version that copies the assessment system
createClassWithInheritance(db, classGroupId, failAt, clone) ==
    LET newId == NextClassId(db)
        gbId == NextGradeBookId(db)
        cloneId == NextCloneId(db)
        terms == inheritClassGroupTerms(classGroupId)
        system == resolveAndInheritAssessmentSystem(classGroupId)
        s1 == Only({ Step(ctx, 1, failAt, classCreate(ctx, "tx", newId, classGroupId)) : ctx \in {Begin(db)} })
        s2 == Only({ Step(ctx, 2, failAt,
                 IF terms.err # "none" THEN Throw(ctx, terms.err) ELSE ctx) : ctx \in {s1} })
        s3 == Only({ Step(ctx, 3, failAt, classUpdate(ctx, "tx", newId, terms.id)) : ctx \in {s2} })
        s4 == Only({ Step(ctx, 4, failAt,
                 IF clone THEN resolveAndInheritAssessmentSystemClone(ctx, classGroupId, cloneId)
                 ELSE IF system.err # "none" THEN Throw(ctx, system.err) ELSE ctx) : ctx \in {s3} })
        s5 == Only({ Step(ctx, 5, failAt,
                 gradeBookCreate(ctx, "tx", newId, IF clone THEN cloneId ELSE system.id, terms.id)) : ctx \in {s4} })
        s6 == Only({ Step(ctx, 6, failAt,
                 initializeSubjectGradeRecords(ctx, gbId, classGroupId,
                                               IF clone THEN JsonNull ELSE EmptyObject)) : ctx \in {s5} })
    IN  Only({ [db |-> EndTransaction(ctx), err |-> ctx.err] : ctx \in {s6} })

\* ------------------------------------------------------------------------
\* GradeBookService.initializeGradeBook, in its versions
\* ------------------------------------------------------------------------
ClassRow(db, classId) == CHOOSE c \in db.classes : c.id = classId
ClassExists(db, classId) == \E c \in db.classes : c.id = classId
OrEmpty(v) == IF v = NULL THEN "" ELSE v

\* gradeBook.create with nested subjectRecords.create: one statement, the
\* grade book and its records are inserted together or not at all
gradeBookCreateNested(ctx, via, classId, assessmentSystemId, termStructureId, subjectSeq, emptyJson) ==
    LET withBook == gradeBookCreate(ctx, via, classId, assessmentSystemId, termStructureId)
        withRecords == IF withBook.err # "none" THEN withBook
                       ELSE subjectRecordCreateMany(withBook, via, NextGradeBookId(ctx.t),
                                                    subjectSeq, emptyJson, emptyJson)
    IN  IF withRecords.err = "none" THEN withRecords ELSE Throw(ctx, withRecords.err)

\* GradeBookService.ts:217-265: no transaction; the grade book with its
\* records, then the class's termStructureId
initializeGradeBookV2(db, classId, failAt) ==
    LET g == IF ClassExists(db, classId) THEN ClassRow(db, classId).classGroupId ELSE ""
        system == resolveAssessmentSystem(g)
        programTerms == ProgramTermStructures(GroupProgram(g))
        s1 == Only({ Step(ctx, 1, failAt,
                 IF ClassExists(db, classId) THEN ctx ELSE Throw(ctx, "NotFound:Class")) : ctx \in {Begin(db)} })
        s2 == Only({ Step(ctx, 2, failAt,
                 IF system.err # "none" THEN Throw(ctx, system.err)
                 ELSE IF programTerms = <<>> THEN Throw(ctx, "NotFound:TermStructure")
                 ELSE ctx) : ctx \in {s1} })
        s3 == Only({ Step(ctx, 3, failAt,
                 gradeBookCreateNested(ctx, "db", classId, system.id, programTerms[1],
                                       GroupSubjects(g), EmptyObject)) : ctx \in {s2} })
        s4 == Only({ Step(ctx, 4, failAt, classUpdate(ctx, "db", classId, programTerms[1])) : ctx \in {s3} })
    IN  Only({ [db |-> ctx.c, err |-> ctx.err] : ctx \in {s4} })

\* GradeBookService.ts:642-682: the grade book in a transaction, the subject
\* records through SubjectGradeManager (the plain client), which is handed
\* the subject's id and the class's termStructureId (or '')
initializeGradeBookV3(db, classId, failAt) ==
    LET row == IF ClassExists(db, classId) THEN ClassRow(db, classId)
               ELSE [id |-> classId, classGroupId |-> "", termStructureId |-> NULL]
        g == row.classGroupId
        base == ProgramAssessmentSystem(GroupProgram(g))
        s1 == Only({ Step(ctx, 1, failAt,
                 IF ClassExists(db, classId) THEN ctx ELSE Throw(ctx, "NotFound:Class")) : ctx \in {Begin(db)} })
        s2 == Only({ Step(ctx, 2, failAt,
                 gradeBookCreate(ctx, "tx", classId,
                                 IF base = <<>> THEN "" ELSE base[1].id,
                                 OrEmpty(row.termStructureId))) : ctx \in {s1} })
        s3 == Only({ Step(ctx, 3, failAt,
                 InitializeAllSubjectGrades(ctx, "db", NextGradeBookId(db), GroupSubjects(g),
                     [id |-> OrEmpty(row.termStructureId), loaded |-> FALSE])) : ctx \in {s2} })
    IN  Only({ [db |-> EndTransaction(ctx), err |-> ctx.err] : ctx \in {s3} })

\* part_001:100-157: the program's assessment system and first term
\* structure are required; the grade book with nested records in a
\* transaction, then SubjectGradeManager.initializeSubjectGrades per subject
\* with the term-structure row (fetched without its academicTerms)
initializeGradeBookV4(db, classId, failAt) ==
    LET g == IF ClassExists(db, classId) THEN ClassRow(db, classId).classGroupId ELSE ""
        base == ProgramAssessmentSystem(GroupProgram(g))
        programTerms == ProgramTermStructures(GroupProgram(g))
        s1 == Only({ Step(ctx, 1, failAt,
                 IF ~ClassExists(db, classId) THEN Throw(ctx, "NotFound:Class")
                 ELSE IF base = <<>> THEN Throw(ctx, "NotFound:AssessmentSystem")
                 ELSE IF programTerms = <<>> THEN Throw(ctx, "NotFound:TermStructure")
                 ELSE ctx) : ctx \in {Begin(db)} })
        s2 == Only({ Step(ctx, 2, failAt,
                 gradeBookCreateNested(ctx, "tx", classId, base[1].id, programTerms[1],
                                       GroupSubjects(g), JsonNull)) : ctx \in {s1} })
        s3 == Only({ Step(ctx, 3, failAt,
                 InitializeAllSubjectGrades(ctx, "db", NextGradeBookId(db), GroupSubjects(g),
                     [id |-> programTerms[1], loaded |-> FALSE])) : ctx \in {s2} })
    IN  Only({ [db |-> EndTransaction(ctx), err |-> ctx.err] : ctx \in {s3} })

initializeGradeBook(version, db, classId, failAt) ==
    CASE version = "V2" -> initializeGradeBookV2(db, classId, failAt)
      [] version = "V3" -> initializeGradeBookV3(db, classId, failAt)
      [] OTHER -> initializeGradeBookV4(db, classId, failAt)

\* ClassService.createClassWithInheritance (part_000): the class through the
\* transaction client; the grade book and the calendar through services
\* that hold the plain client, which reads committed rows only
classServiceCreateClassWithInheritance(db, classGroupId, version, failAt) ==
    LET newId == NextClassId(db)
        s1 == Only({ Step(ctx, 1, failAt, classCreate(ctx, "tx", newId, classGroupId)) : ctx \in {Begin(db)} })
        s2 == Only({ Step(ctx, 2, failAt,
                 Only({ [c |-> r.db,
                         t |-> [r.db EXCEPT !.classes = @ \cup (ctx.t.classes \ ctx.c.classes)],
                         err |-> r.err]
                        : r \in {initializeGradeBook(version, ctx.c, newId, 0)} }))
                 : ctx \in {s1} })
        \* inheritClassGroupCalendar: calendar events, rows the grading
        \* core never reads
        s3 == Only({ Step(ctx, 3, failAt, ctx) : ctx \in {s2} })
    IN  Only({ [db |-> EndTransaction(ctx), err |-> ctx.err] : ctx \in {s3} })

\* ------------------------------------------------------------------------
\* SubjectGradeManager.updateSubjectGradeRecord and recordGradeHistory
\* ------------------------------------------------------------------------
\* JSON.parse(existingRecord.termGrades as string): a JSON string parses to
\* the object it holds; an object is first turned into "[object Object]",
\* which is no JSON; null (and no record) is skipped by the `?` test
ParsesAsString(json) == json.fmt = "string"

\* { ...existingTermGrades, [termId]: termGrade }
SpreadTermGrade(json, termId, termGrade) ==
    Json("string", json.keys \cup {termId},
         [k \in json.keys \cup {termId} |-> IF k = termId THEN termGrade ELSE json.val[k]])

\* The mutated upsert: (gradeBookId, subjectId) is not checked for uniqueness
subjectRecordUpsertNoUnique(ctx, via, id, gradeBookId, subjectId, updated, created) ==
    LET v == View(ctx, via)
        Set(rows) == { IF r.id = id THEN [r EXCEPT !.termGrades = updated] ELSE r
                       : r \in rows }
    IN  IF \E r \in v.subjectRecords : r.id = id
        THEN [ctx EXCEPT !.t.subjectRecords = Set(@),
                         !.c.subjectRecords = IF via = "db" THEN Set(@) ELSE @]
        ELSE Put(ctx, via, "subjectRecords",
                 {[id |-> id, gradeBookId |-> gradeBookId, subjectId |-> subjectId,
                   termGrades |-> created,
                   assessmentPeriodGrades |-> Json("string", {}, <<>>)]})

\* subjectGradeRecord.upsert({ where: { id }, update: { termGrades }, create }):
\* the row with this id gets the new termGrades; without one a row is
\* inserted under this id, (gradeBookId, subjectId) being unique
subjectRecordUpsert(ctx, via, id, gradeBookId, subjectId, updated, created) ==
    LET v == View(ctx, via)
        Set(rows) == { IF r.id = id THEN [r EXCEPT !.termGrades = updated] ELSE r
                       : r \in rows }
    IN  IF \E r \in v.subjectRecords : r.id = id
        THEN [ctx EXCEPT !.t.subjectRecords = Set(@),
                         !.c.subjectRecords = IF via = "db" THEN Set(@) ELSE @]
        ELSE IF SubjectRecordOf(v, gradeBookId, <<subjectId>>)
        THEN Throw(ctx, "UniqueConstraint")
        ELSE IF enforceFK /\ ~\E g \in v.gradeBooks : g.id = gradeBookId
        THEN Throw(ctx, "ForeignKey")
        ELSE Put(ctx, via, "subjectRecords",
                 {[id |-> id, gradeBookId |-> gradeBookId, subjectId |-> subjectId,
                   termGrades |-> created,
                   assessmentPeriodGrades |-> Json("string", {}, <<>>)]})

\* recordGradeHistory: gradeHistory.create
recordGradeHistory(ctx, via, studentId, subjectId, termGrade) ==
    Put(ctx, via, "gradeHistory",
        {[id |-> Cardinality(ctx.t.gradeHistory) + 1, studentId |-> studentId,
          subjectId |-> subjectId, gradeValue |-> termGrade.finalGrade,
          modifiedBy |-> "SYSTEM", reason |-> "Term grade calculation"]})

\* updateSubjectGradeRecord(gradeBookId, subjectId, termId, studentId): the
\* term grade (computed with the grade book's id in the place of the
\* assessment system's) is spread into the termGrades of the record whose id
\* is `${gradeBookId}_${subjectId}`; no transaction
updateSubjectGradeRecord(db, gradeBookId, subjectId, termId, studentId, failAt) ==
    LET id == CompositeId(gradeBookId, subjectId)
        termGrade == calculateSubjectTermGrade(calcIn.weights, calcIn.subs, subjectId,
                                               termId, studentId, gradeBookId)
        existing == { r \in db.subjectRecords : r.id = id }
        stored == IF existing = {} THEN JsonNull
                  ELSE (CHOOSE r \in existing : TRUE).termGrades
        existingTermGrades == IF stored.fmt = "null" THEN EmptyObject ELSE stored
        s1 == Only({ Step(ctx, 1, failAt,
                 IF stored.fmt = "null" \/ ParsesAsString(stored) THEN ctx
                 ELSE Throw(ctx, "SyntaxError")) : ctx \in {Begin(db)} })
        s2 == Only({ Step(ctx, 2, failAt,
                 subjectRecordUpsert(ctx, "db", id, gradeBookId, subjectId,
                     SpreadTermGrade(existingTermGrades, termId, termGrade),
                     SpreadTermGrade(EmptyObject, termId, termGrade))) : ctx \in {s1} })
        s3 == Only({ Step(ctx, 3, failAt,
                 recordGradeHistory(ctx, "db", studentId, subjectId, termGrade))
                 : ctx \in {s2} })
    IN  Only({ [db |-> ctx.c, err |-> ctx.err] : ctx \in {s3} })

\* subjectGradeRecord.upsert({ where: { gradeBookId_subjectId }, update, create }):
\* the row of this key gets the new termGrades; without one a row is
\* inserted under a generated id
subjectRecordUpsertByKey(ctx, via, gradeBookId, subjectId, termGrades) ==
    LET v == View(ctx, via)
        Set(rows) == { IF r.gradeBookId = gradeBookId /\ r.subjectId = subjectId
                       THEN [r EXCEPT !.termGrades = termGrades] ELSE r
                       : r \in rows }
    IN  IF SubjectRecordOf(v, gradeBookId, <<subjectId>>)
        THEN [ctx EXCEPT !.t.subjectRecords = Set(@),
                         !.c.subjectRecords = IF via = "db" THEN Set(@) ELSE @]
        ELSE subjectRecordCreateMany(ctx, via, gradeBookId, <<subjectId>>,
                                     termGrades, EmptyObject)

\* SubjectGradeManager.ts:662-691, updateSubjectGradeRecord by the key
\* (gradeBookId, subjectId): the term grade (computed without an assessment
\* system id) replaces the record's termGrades; no grade history
updateSubjectGradeRecordByKey(db, gradeBookId, subjectId, termId, studentId, failAt) ==
    LET termGrade == calculateSubjectTermGrade(calcIn.weights, calcIn.subs, subjectId,
                                               termId, studentId, "")
        s1 == Only({ Step(ctx, 1, failAt,
                 subjectRecordUpsertByKey(ctx, "db", gradeBookId, subjectId,
                     Json("object", {termId}, [k \in {termId} |-> termGrade])))
                 : ctx \in {Begin(db)} })
    IN  Only({ [db |-> ctx.c, err |-> ctx.err] : ctx \in {s1} })

\* ------------------------------------------------------------------------
\* GradeBookService.calculateCumulativeGrade, recordTermResult and the batch
\* ------------------------------------------------------------------------
\* The mutated upsert: a row is inserted whether or not the key has one
termResultInsert(ctx, via, studentId, termId, data) ==
    Put(ctx, via, "termResults",
        {[studentId |-> studentId, programTermId |-> termId, gpa |-> data.gpa,
          totalCredits |-> data.totalCredits, earnedCredits |-> data.earnedCredits]})

\* termResult.upsert({ where: { studentId_programTermId }, update, create })
termResultUpsert(ctx, via, studentId, termId, data) ==
    LET row == [studentId |-> studentId, programTermId |-> termId, gpa |-> data.gpa,
                totalCredits |-> data.totalCredits, earnedCredits |-> data.earnedCredits]
        Set(rows) == { r \in rows : ~(r.studentId = studentId /\ r.programTermId = termId) }
                         \cup {row}
    IN  [ctx EXCEPT !.t.termResults = Set(@),
                    !.c.termResults = IF via = "db" THEN Set(@) ELSE @]

\* The mutated accumulation: the grade points are not weighted by credits
CumulativeStepUnweighted(acc, termGrade) ==
    [totalGradePoints |-> RAdd(acc.totalGradePoints, termGrade.gradePoints),
     totalCredits |-> acc.totalCredits + termGrade.credits,
     earnedCredits |-> acc.earnedCredits + (IF termGrade.isPassing THEN termGrade.credits ELSE 0)]

\* totalGradePoints += gradePoints * credits; totalCredits += credits;
\* earnedCredits += credits when the subject is passed
CumulativeStep(acc, termGrade) ==
    [totalGradePoints |-> RAdd(acc.totalGradePoints,
                               RMul(termGrade.gradePoints, RInt(termGrade.credits))),
     totalCredits |-> acc.totalCredits + termGrade.credits,
     earnedCredits |-> acc.earnedCredits + (IF termGrade.isPassing THEN termGrade.credits ELSE 0)]

RECURSIVE CumulativeLoop(_, _, _, _, _)
CumulativeLoop(acc, subjectSeq, termId, studentId, assessmentSystemId) ==
    IF subjectSeq = <<>> THEN acc
    ELSE Only({ CumulativeLoop(CumulativeStep(a, termGrade), Tail(subjectSeq), termId,
                               studentId, assessmentSystemId)
                : a \in {acc},
                  termGrade \in { calculateSubjectTermGrade(
                                    calcIn.weights, calcIn.subs, Head(subjectSeq),
                                    termId, studentId, assessmentSystemId) } })

\* gpa = totalCredits > 0 ? totalGradePoints / totalCredits : 0
CumulativeGpa(acc) ==
    IF acc.totalCredits > 0
    THEN RDiv(acc.totalGradePoints, RInt(acc.totalCredits))
    ELSE RZero

\* calculateCumulativeGrade(gradeBookId, studentId, termId): the grade book
\* with its class group's subjects, the term grade of every subject, the
\* upsert of the TermResult, the totals returned
calculateCumulativeGrade(db, gradeBookId, studentId, termId, failAt) ==
    LET books == { g \in db.gradeBooks : g.id = gradeBookId }
        gradeBook == CHOOSE g \in books : TRUE
        subjectSeq == GroupSubjects(ClassRow(db, gradeBook.classId).classGroupId)
        s1 == Only({ Step(ctx, 1, failAt,
                 IF books = {} THEN Throw(ctx, "NotFound:GradeBook") ELSE ctx)
                 : ctx \in {Begin(db)} })
        Record(data) ==
            Only({ [db |-> ctx.c, err |-> ctx.err,
                    result |-> IF ctx.err = "none" THEN data ELSE NoResult]
                   : ctx \in { Step(s1, 2, failAt,
                                    termResultUpsert(s1, "db", studentId, termId, data)) } })
    IN  IF s1.err # "none" THEN [db |-> db, err |-> s1.err, result |-> NoResult]
        ELSE Only({ Record(CumulativeGradeData(CumulativeGpa(acc), acc.totalCredits,
                                               acc.earnedCredits))
                    : acc \in { CumulativeLoop(
                                  [totalGradePoints |-> RZero, totalCredits |-> 0,
                                   earnedCredits |-> 0],
                                  subjectSeq, termId, studentId,
                                  gradeBook.assessmentSystemId) } })

\* the updateSubjectGradeRecord calls of the loop over the subjects, each
\* through the plain client; the first that throws ends the loop
RECURSIVE UpdateLoop(_, _, _, _, _)
UpdateLoop(run, gradeBookId, subjectSeq, termId, studentId) ==
    IF subjectSeq = <<>> \/ run.err # "none" THEN run
    ELSE Only({ UpdateLoop(updateSubjectGradeRecord(r.db, gradeBookId, Head(subjectSeq),
                                                    termId, studentId, 0),
                           gradeBookId, Tail(subjectSeq), termId, studentId)
                : r \in {run} })

\* GradeBookService.ts:491-585, calculateCumulativeGrade with the term
\* weight: the program's term structures are fetched with their termSettings
\* but without their academicTerms, so looking for the structure of the term
\* reads `.some` of undefined as soon as the program has a term structure;
\* with none, termSettings is undefined and the weight is 1.0.  Every
\* subject's record is updated inside the loop.
calculateCumulativeGradeTermWeight(db, gradeBookId, studentId, termId, failAt) ==
    LET books == { g \in db.gradeBooks : g.id = gradeBookId }
        gradeBook == CHOOSE g \in books : TRUE
        classGroupId == ClassRow(db, gradeBook.classId).classGroupId
        subjectSeq == GroupSubjects(classGroupId)
        s1 == Only({ Step(ctx, 1, failAt,
                 IF books = {} THEN Throw(ctx, "NotFound:GradeBook")
                 ELSE IF ProgramTermStructures(GroupProgram(classGroupId)) # <<>>
                 THEN Throw(ctx, "TypeError")
                 ELSE ctx)
                 : ctx \in {Begin(db)} })
        Record(updated, data) ==
            Only({ [db |-> ctx.c, err |-> ctx.err,
                    result |-> IF ctx.err = "none" THEN data ELSE NoResult]
                   : ctx \in { Step(Begin(updated.db), 2, failAt,
                                    termResultUpsert(Begin(updated.db), "db", studentId,
                                                     termId, data)) } })
        Update(acc) ==
            Only({ IF updated.err # "none"
                   THEN [db |-> updated.db, err |-> updated.err, result |-> NoResult]
                   ELSE Record(updated,
                               CumulativeGradeData(CumulativeGpa(acc), acc.totalCredits,
                                                   acc.earnedCredits))
                   : updated \in { UpdateLoop([db |-> db, err |-> "none"], gradeBookId,
                                              subjectSeq, termId, studentId) } })
    IN  IF s1.err # "none" THEN [db |-> db, err |-> s1.err, result |-> NoResult]
        ELSE Only({ Update(acc)
                    : acc \in { CumulativeLoop(
                                  [totalGradePoints |-> RZero, totalCredits |-> 0,
                                   earnedCredits |-> 0],
                                  subjectSeq, termId, studentId,
                                  gradeBook.assessmentSystemId) } })

\* db.user.findMany: the students whose class has this grade book
StudentClass(studentId) == "n1"
StudentOrder == <<"s1", "s2", "s3">>
findStudents(db, gradeBookId) ==
    SelectSeq(StudentOrder, LAMBDA s :
        \E g \in db.gradeBooks : g.id = gradeBookId /\ g.classId = StudentClass(s))

\* The mutated batch member: the student's failure is not caught
calculateUncaught(run, gradeBookId, studentId, termId, failing) ==
    IF run.err # "none" THEN run
    ELSE Only({ [db |-> r.db, err |-> r.err]
                : r \in { calculateCumulativeGrade(run.db, gradeBookId, studentId, termId,
                                                   IF studentId \in failing THEN 2 ELSE 0) } })

\* calculateCumulativeGrade(...).catch(error => null): a member of a chunk
calculateCaught(run, gradeBookId, studentId, termId, failing) ==
    IF run.err # "none" THEN run
    ELSE Only({ [db |-> r.db, err |-> "none"]
                : r \in { calculateCumulativeGrade(run.db, gradeBookId, studentId, termId,
                                                   IF studentId \in failing THEN 2 ELSE 0) } })

\* Promise.all over one chunk: its members write the TermResults of
\* different students and read none, so their order does not show
RECURSIVE ChunkLoop(_, _, _, _, _)
ChunkLoop(run, chunk, gradeBookId, termId, failing) ==
    IF chunk = <<>> THEN run
    ELSE Only({ ChunkLoop(calculateCaught(r, gradeBookId, Head(chunk), termId, failing),
                          Tail(chunk), gradeBookId, termId, failing)
                : r \in {run} })

\* for (i = 0; i < students.length; i += batchSize) over students.slice(i, i + batchSize)
RECURSIVE BatchLoop(_, _, _, _, _, _, _)
BatchLoop(run, students, i, batchSize, gradeBookId, termId, failing) ==
    IF i > Len(students) THEN run
    ELSE Only({ BatchLoop(
                  ChunkLoop(r, SubSeq(students, i,
                                      IF i + batchSize - 1 < Len(students)
                                      THEN i + batchSize - 1 ELSE Len(students)),
                            gradeBookId, termId, failing),
                  students, i + batchSize, batchSize, gradeBookId, termId, failing)
                : r \in {run} })

\* batchCalculateCumulativeGrades(gradeBookId, termId, config); `failing`
\* are the students whose calculation throws, listFails the failure of the
\* query for the students
batchCalculateCumulativeGrades(db, gradeBookId, termId, batchSize, failing, listFails) ==
    IF listFails THEN [db |-> db, err |-> "DbError"]
    ELSE BatchLoop([db |-> db, err |-> "none"], findStudents(db, gradeBookId), 1,
                   batchSize, gradeBookId, termId, failing)

\* ------------------------------------------------------------------------
\* The grade-book lifecycle as a state machine
\* ------------------------------------------------------------------------
Commit(db) ==
    /\ classes' = db.classes
    /\ gradeBooks' = db.gradeBooks
    /\ subjectRecords' = db.subjectRecords
    /\ assessmentSystems' = db.assessmentSystems
    /\ termResults' = db.termResults
    /\ gradeHistory' = db.gradeHistory

\* Three classes made before any grade book: two without a term structure
\* of their own, one (of a class group without subjects) with one
LifeStart ==
    [classes |-> { [id |-> "c1", classGroupId |-> "g1", termStructureId |-> NULL],
                   [id |-> "c2", classGroupId |-> "g2", termStructureId |-> NULL],
                   [id |-> "c4", classGroupId |-> "g4", termStructureId |-> "ts1"] },
     gradeBooks |-> {}, subjectRecords |-> {}, assessmentSystems |-> {"as1", "as3"},
     termResults |-> {}, gradeHistory |-> {}]

Load(db) ==
    /\ classes = db.classes
    /\ gradeBooks = db.gradeBooks
    /\ subjectRecords = db.subjectRecords
    /\ assessmentSystems = db.assessmentSystems
    /\ termResults = db.termResults
    /\ gradeHistory = db.gradeHistory

InitLife ==
    /\ Load(LifeStart)
    /\ enforceFK \in BOOLEAN
    /\ calcIn = [weights |-> DefaultPeriodWeights, subs |-> <<>>]
    /\ groupSettings = NoSettings /\ running = Idle
    /\ NoExt
    /\ lastOp = NoOp

MayCreateClass ==
    Cardinality({ c \in classes : \E i \in DOMAIN NewClassIds : c.id = NewClassIds[i] })
        < MaxNewClasses

GroupArgs == ClassGroupIds \cup {"gX"}
ClassArgs == {"c1", "c2", "c4", "n1", "cX"}
FailPoints == 0 .. 6

CreateClassWithInheritance(classGroupId, failAt) ==
    /\ MayCreateClass
    /\ \E r \in { createClassWithInheritance(Tables, classGroupId, failAt, FALSE) } :
           /\ Commit(r.db)
           /\ lastOp' = Op("createClassWithInheritance", <<classGroupId, failAt>>, r.err, NoResult)
    /\ UNCHANGED <<enforceFK, calcIn, ext, groupSettings, running>>

CreateClassWithInheritanceClone(classGroupId, failAt) ==
    /\ MayCreateClass
    /\ \E r \in { createClassWithInheritance(Tables, classGroupId, failAt, TRUE) } :
           /\ Commit(r.db)
           /\ lastOp' = Op("createClassWithInheritance", <<classGroupId, failAt>>, r.err, NoResult)
    /\ UNCHANGED <<enforceFK, calcIn, ext, groupSettings, running>>

ClassServiceCreateClassWithInheritance(classGroupId, version, failAt) ==
    /\ MayCreateClass
    /\ \E r \in { classServiceCreateClassWithInheritance(Tables, classGroupId, version, failAt) } :
           /\ Commit(r.db)
           /\ lastOp' = Op("createClassWithInheritance", <<classGroupId, failAt>>, r.err, NoResult)
    /\ UNCHANGED <<enforceFK, calcIn, ext, groupSettings, running>>

InitializeGradeBook(version, classId, failAt) ==
    /\ \E r \in { initializeGradeBook(version, Tables, classId, failAt) } :
           /\ Commit(r.db)
           /\ lastOp' = Op("initializeGradeBook", <<classId, failAt>>, r.err, NoResult)
    /\ UNCHANGED <<enforceFK, calcIn, ext, groupSettings, running>>

UpdateSubjectGradeRecord(gradeBookId, subjectId, termId, studentId, failAt) ==
    /\ Cardinality(gradeHistory) < MaxHistory
    /\ \E r \in { updateSubjectGradeRecord(Tables, gradeBookId, subjectId, termId,
                                           studentId, failAt) } :
           /\ Commit(r.db)
           /\ lastOp' = Op("updateSubjectGradeRecord",
                           <<gradeBookId, subjectId, termId, studentId, failAt>>,
                           r.err, NoResult)
    /\ UNCHANGED <<enforceFK, calcIn, ext, groupSettings, running>>

UpdateSubjectGradeRecordByKey(gradeBookId, subjectId, termId, studentId, failAt) ==
    /\ \E r \in { updateSubjectGradeRecordByKey(Tables, gradeBookId, subjectId, termId,
                                                studentId, failAt) } :
           /\ Commit(r.db)
           /\ lastOp' = Op("updateSubjectGradeRecord",
                           <<gradeBookId, subjectId, termId, studentId, failAt>>,
                           r.err, NoResult)
    /\ UNCHANGED <<enforceFK, calcIn, ext, groupSettings, running>>

CalculateCumulativeGrade(gradeBookId, studentId, termId, failAt) ==
    /\ \E r \in { calculateCumulativeGrade(Tables, gradeBookId, studentId, termId, failAt) } :
           /\ Commit(r.db)
           /\ lastOp' = Op("calculateCumulativeGrade",
                           <<gradeBookId, studentId, termId, failAt>>, r.err, r.result)
    /\ UNCHANGED <<enforceFK, calcIn, ext, groupSettings, running>>

CalculateCumulativeGradeTermWeight(gradeBookId, studentId, termId, failAt) ==
    /\ \E r \in { calculateCumulativeGradeTermWeight(Tables, gradeBookId, studentId, termId,
                                                     failAt) } :
           /\ Commit(r.db)
           /\ lastOp' = Op("calculateCumulativeGrade",
                           <<gradeBookId, studentId, termId, failAt>>, r.err, r.result)
    /\ UNCHANGED <<enforceFK, calcIn, ext, groupSettings, running>>

BatchCalculateCumulativeGrades(gradeBookId, termId, batchSize, failing, listFails) ==
    /\ \E r \in { batchCalculateCumulativeGrades(Tables, gradeBookId, termId, batchSize,
                                                 failing, listFails) } :
           /\ Commit(r.db)
           /\ lastOp' = Op("batchCalculateCumulativeGrades",
                           <<gradeBookId, termId, batchSize, failing, listFails>>,
                           r.err, NoResult)
    /\ UNCHANGED <<enforceFK, calcIn, ext, groupSettings, running>>

NextLife ==
    \/ \E g \in GroupArgs, f \in FailPoints : CreateClassWithInheritance(g, f)
    \/ \E g \in GroupArgs, f \in FailPoints : CreateClassWithInheritanceClone(g, f)
    \/ \E g \in GroupArgs, v \in {"V2", "V3", "V4"}, f \in 0 .. 3 :
          ClassServiceCreateClassWithInheritance(g, v, f)
    \/ \E v \in {"V2", "V3", "V4"}, c \in ClassArgs, f \in 0 .. 4 :
          InitializeGradeBook(v, c, f)

SpecLife == InitLife /\ [][NextLife]_vars

\* ------------------------------------------------------------------------
\* Subject grade records over the life of a grade book: created with it,
\* then written by the grade calculations
\* ------------------------------------------------------------------------
NextRecords ==
    \/ \E g \in {"g1", "g4"}, f \in {0, 6} : CreateClassWithInheritance(g, f)
    \/ CreateClassWithInheritanceClone("g1", 0)
    \/ \E v \in {"V3", "V4"}, c \in {"c4", "n1"} : InitializeGradeBook(v, c, 0)
    \/ \E g \in {"b1", "b2"}, t \in TermIds, f \in {0, 3} :
          UpdateSubjectGradeRecord(g, "A", t, "s1", f)
    \/ \E t \in TermIds, f \in {0, 1} : UpdateSubjectGradeRecordByKey("b1", "A", t, "s1", f)
    \/ \E g \in {"b1", "b2"} : CalculateCumulativeGrade(g, "s1", "T1", 0)
    \/ \E g \in {"b1", "b2"} : CalculateCumulativeGradeTermWeight(g, "s1", "T1", 0)

SpecRecords == InitLife /\ [][NextRecords]_vars

\* ------------------------------------------------------------------------
\* Term results: cumulative grades over a class whose grade book exists
\* ------------------------------------------------------------------------
\* activitySubmission rows of the students of class n1 in subjects A and B,
\* in the order of their creation; any of them may be there
TermRows ==
    << Sub("s1", "A", 1, TRUE, 80, 100, "MARKING_SCHEME", <<>>),
       Sub("s1", "B", 1, TRUE, 45, 100, "MARKING_SCHEME", <<>>),
       Sub("s2", "A", 1, TRUE, 90, 100, "MARKING_SCHEME", <<>>) >>

TermSubmissions ==
    { SelectSeq(TermRows, LAMBDA r : r \in chosen)
      : chosen \in SUBSET { TermRows[i] : i \in DOMAIN TermRows } }

\* period P1 makes the whole of term T1
TermWeights == [p \in PeriodIds |-> CASE p = "P1" -> 1 [] p = "P2" -> 0 [] OTHER -> 1]

\* The tables once class n1 of class group g1 was created with its grade
\* book and the grade book of class c4 was initialized; and, where the store lets a grade book
\* without a term structure in, the grade book of class c3, whose program
\* has no term structure
TermStart ==
    initializeGradeBook("V3",
        initializeGradeBook("V4",
            createClassWithInheritance(
                [LifeStart EXCEPT !.classes = @ \cup {[id |-> "c3", classGroupId |-> "g3",
                                                        termStructureId |-> NULL]}],
                "g1", 0, FALSE).db,
            "c4", 0).db,
        "c3", 0).db

InitTerm ==
    /\ enforceFK \in BOOLEAN
    /\ \E db \in { TermStart } : Load(db)
    /\ calcIn \in [weights : {TermWeights}, subs : TermSubmissions]
    /\ groupSettings = NoSettings /\ running = Idle
    /\ NoExt
    /\ lastOp = NoOp

\* every student against the grade book of n1; one student against the
\* grade books of c4 and c3 (no subjects) and against a grade book that is
\* not there
CumulativeArgs == ({"b1"} \X Students) \cup ({"b2", "b3", "bX"} \X {"s1"})
\* the batch over the grade book of n1 with every set of failing students,
\* over the grade book of c4 (no student), and with the student query failing
BatchArgs ==
    ({"b1"} \X (SUBSET Students) \X {FALSE}) \cup {<<"b2", {}, FALSE>>, <<"b1", {}, TRUE>>}

NextTerm ==
    \/ \E a \in CumulativeArgs, f \in 0 .. 2 : CalculateCumulativeGrade(a[1], a[2], "T1", f)
    \/ \E a \in CumulativeArgs, f \in 0 .. 2 :
          CalculateCumulativeGradeTermWeight(a[1], a[2], "T1", f)
    \/ \E n \in 1 .. MaxBatchSize, a \in BatchArgs :
          BatchCalculateCumulativeGrades(a[1], "T1", n, a[2], a[3])

SpecTerm == InitTerm /\ [][NextTerm]_vars

\* ------------------------------------------------------------------------
\* The aggregators applied to drawn inputs
\* ------------------------------------------------------------------------
IdleTables ==
    /\ Load([LifeStart EXCEPT !.classes = {}])
    /\ enforceFK = TRUE

InitCalc ==
    /\ IdleTables
    /\ calcIn \in [weights : [PeriodIds -> Weights],
                   subs : SeqsUpTo(SubmissionRows, MaxSubs)]
    /\ groupSettings = NoSettings /\ running = Idle
    /\ NoExt
    /\ lastOp = NoOp

CalcPeriodGrade(periodId) ==
    /\ lastOp' = [op |-> "calculateAssessmentPeriodGrade",
                  args |-> <<"A", periodId, "s1">>,
                  error |-> "none",
                  result |-> calculateAssessmentPeriodGrade(
                               calcIn.weights, calcIn.subs, "A", periodId, "s1", "as1")]
    /\ UNCHANGED <<classes, gradeBooks, subjectRecords, assessmentSystems,
                   termResults, gradeHistory, enforceFK, calcIn, ext, groupSettings, running>>

CalcTermGrade(termId) ==
    /\ lastOp' = [op |-> "calculateSubjectTermGrade",
                  args |-> <<"A", termId, "s1">>,
                  error |-> "none",
                  result |-> calculateSubjectTermGrade(
                               calcIn.weights, calcIn.subs, "A", termId, "s1", "as1")]
    /\ UNCHANGED <<classes, gradeBooks, subjectRecords, assessmentSystems,
                   termResults, gradeHistory, enforceFK, calcIn, ext, groupSettings, running>>

\* the periods asked for: the three that exist and one that does not
PeriodArgs == PeriodIds \cup {"PX"}

NextCalc ==
    \/ \E p \in PeriodArgs : CalcPeriodGrade(p)
    \/ \E t \in TermIds : CalcTermGrade(t)

SpecCalc == InitCalc /\ [][NextCalc]_vars

\* ------------------------------------------------------------------------
\* Claims about the aggregators
\* ------------------------------------------------------------------------
RECURSIVE RSumSeq(_)
RSumSeq(q) == IF q = <<>> THEN RZero ELSE RAdd(Head(q), RSumSeq(Tail(q)))

RECURSIVE SumSeq(_)
SumSeq(q) == IF q = <<>> THEN 0 ELSE Head(q) + SumSeq(Tail(q))

\* the period grades a term grade is made of, in the order of the term's periods
PeriodGradesOf(termId) ==
    LET periods == findPeriodsOfTerm(termId)
    IN  [i \in DOMAIN periods |->
           calculateAssessmentPeriodGrade(calcIn.weights, calcIn.subs, "A", periods[i], "s1", "as1")]

\* C4: calculateSubjectTermGrade returns the weight-weighted mean of the
\* period percentages when the weights sum to more than 0 (period weights
\* 1 and 2 with period percentages 80 and 50 give 60), and percentage 0,
\* without an error, when every period of the term has weight 0.
C4_TermWeightedMean ==
    lastOp.op = "calculateSubjectTermGrade" =>
        LET grades == PeriodGradesOf(lastOp.args[2])
            weightSum == SumSeq([i \in DOMAIN grades |-> grades[i].weight])
            weightedTotal == RSumSeq([i \in DOMAIN grades |->
                                 RMul(grades[i].percentage, RInt(grades[i].weight))])
        IN  /\ lastOp.error = "none"
            /\ weightSum > 0 =>
                 RMul(lastOp.result.percentage, RInt(weightSum)) = weightedTotal
            /\ weightSum = 0 => lastOp.result.percentage = RZero
            /\ (/\ Len(grades) = 2
                /\ grades[1].weight = 1 /\ grades[2].weight = 2
                /\ grades[1].percentage = RInt(80) /\ grades[2].percentage = RInt(50))
               => lastOp.result.percentage = RInt(60)

C4_Witness ==
    /\ lastOp.op = "calculateSubjectTermGrade"
    /\ lastOp.args[2] = "T1"
    /\ calcIn.weights["P1"] = 1 /\ calcIn.weights["P2"] = 2
    /\ PeriodGradesOf("T1")[1].percentage = RInt(80)
    /\ PeriodGradesOf("T1")[2].percentage = RInt(50)
    /\ lastOp.result.percentage = RInt(60)

\* the submissions a period grade is computed from
PeriodSubmissions(periodId) ==
    findSubmissions(calcIn.subs, "A", findPeriod(calcIn.weights, periodId), "s1")

\* C5: calculateAssessmentPeriodGrade returns the weighted mean of the
\* scores of all graded submissions of the period, each assessment weighing
\* 1 by default (stated for periods whose submissions are all scored by a
\* marking scheme), and 0 when there is none.
C5_PeriodWeightedMean ==
    lastOp.op = "calculateAssessmentPeriodGrade" =>
        LET found == PeriodSubmissions(lastOp.args[2])
            scores == [i \in DOMAIN found |->
                         calculatePercentageFromMarkingScheme(
                           found[i].obtainedMarks, found[i].totalMarks)]
        IN  (\A i \in DOMAIN found : found[i].kind = "MARKING_SCHEME") =>
               /\ Len(found) > 0 =>
                    RMul(lastOp.result.percentage, RInt(Len(found))) = RSumSeq(scores)
               /\ Len(found) = 0 => lastOp.result.percentage = RZero

\* C15: calculateAssessmentPeriodGrade for a period in which the student has
\* no graded submission of the subject returns, without an error,
\* obtainedMarks 0, totalMarks 0, percentage 0 and isPassing false.
C15_EmptyPeriod ==
    (/\ lastOp.op = "calculateAssessmentPeriodGrade"
     /\ lastOp.args[2] \in PeriodIds
     /\ ~\E i \in DOMAIN calcIn.subs :
           /\ calcIn.subs[i].graded
           /\ calcIn.subs[i].subjectId = lastOp.args[1]
           /\ calcIn.subs[i].studentId = lastOp.args[3]
           /\ calcIn.subs[i].createdAt >= PeriodStart(lastOp.args[2])
           /\ calcIn.subs[i].createdAt <= PeriodEnd(lastOp.args[2]))
    => /\ lastOp.error = "none"
       /\ lastOp.result.periodId = lastOp.args[2]
       /\ lastOp.result.obtainedMarks = 0
       /\ lastOp.result.totalMarks = 0
       /\ lastOp.result.percentage = RZero
       /\ lastOp.result.isPassing = FALSE

C15_Witness ==
    /\ lastOp.op = "calculateAssessmentPeriodGrade"
    /\ lastOp.args = <<"A", "P1", "s1">>
    /\ calcIn.subs = <<Sub("s1", "A", 1, FALSE, 90, 100, "MARKING_SCHEME", <<>>),
                       Sub("s1", "A", 3, TRUE, 50, 100, "MARKING_SCHEME", <<>>)>>
    /\ lastOp.error = "none"
    /\ lastOp.result.obtainedMarks = 0 /\ lastOp.result.totalMarks = 0
    /\ lastOp.result.percentage = RZero /\ ~lastOp.result.isPassing

\* C16: calculateAssessmentPeriodGrade for a periodId that no
\* termAssessmentPeriod row has fails with NotFound and returns no grade.
C16_PeriodNotFound ==
    (lastOp.op = "calculateAssessmentPeriodGrade" /\ lastOp.args[2] \notin PeriodIds)
    => lastOp.error = "NotFound"

\* the passing threshold of an assessment system, in percent: the passing
\* marks of its marking scheme, 50 when it configures none
PassingThreshold(assessmentSystemId) ==
    IF MarkingScheme(assessmentSystemId) = <<>> THEN RInt(50)
    ELSE RMul(RDiv(RInt(MarkingScheme(assessmentSystemId)[1]),
                   RInt(MarkingScheme(assessmentSystemId)[2])), RInt(100))

\* C17: every period grade and term grade the aggregators return has
\* isPassing true exactly when its percentage is at least the passing
\* threshold of the assessment system it was computed under.
C17_PassingFollowsPercentage ==
    lastOp.op \in {"calculateAssessmentPeriodGrade", "calculateSubjectTermGrade"}
    => (lastOp.result.isPassing
          <=> RGeq(lastOp.result.percentage, PassingThreshold("as1")))

\* ------------------------------------------------------------------------
\* The grade-book lifecycle
\* ------------------------------------------------------------------------
ClassOf(g) == CHOOSE c \in classes : c.id = g.classId
SubjectsOf(g) ==
    IF \E c \in classes : c.id = g.classId
    THEN { GroupSubjects(ClassOf(g).classGroupId)[i]
           : i \in DOMAIN GroupSubjects(ClassOf(g).classGroupId) }
    ELSE {}
RecordsOf(g, subjectId) ==
    { r \in subjectRecords : r.gradeBookId = g.id /\ r.subjectId = subjectId }

C2_AlreadyInitialized ==
    [][(/\ lastOp'.op = "initializeGradeBook"
        /\ \E g \in gradeBooks : g.classId = lastOp'.args[1])
       => (/\ lastOp'.error = "AlreadyInitialized"
           /\ UNCHANGED <<classes, gradeBooks, subjectRecords>>)]_vars

\* C3: once a GradeBook exists, through initializeGradeBook or
\* createClassWithInheritance, and after any updateSubjectGradeRecord and
\* calculateCumulativeGrade calls, it owns exactly one SubjectGradeRecord per
\* subject of its class's class group, and no record is ever replaced by a
\* new one.
C3_OneRecordPerSubject ==
    /\ [](\A g \in gradeBooks : \A sj \in SubjectsOf(g) :
             Cardinality(RecordsOf(g, sj)) = 1)
    /\ [][\A r \in subjectRecords : \E q \in subjectRecords' :
             q.id = r.id /\ q.gradeBookId = r.gradeBookId /\ q.subjectId = r.subjectId]_vars

C3_Witness ==
    /\ lastOp.op = "updateSubjectGradeRecord"
    /\ lastOp.args[2] = "A"
    /\ lastOp.error = "none"
    /\ \E r \in subjectRecords :
          /\ r.gradeBookId = lastOp.args[1] /\ r.subjectId = "A"
          /\ r.id.kind = "auto" /\ r.termGrades.keys = {"T1"}
    /\ \E g \in gradeBooks :
          /\ g.id = lastOp.args[1]
          /\ SubjectsOf(g) = {"A", "B"}
          /\ \A sj \in SubjectsOf(g) : Cardinality(RecordsOf(g, sj)) = 1

\* C9: every GradeBook references an existing AssessmentSystem and an
\* existing TermStructure; initializing the grade book of a class whose
\* program has no assessment system (or no term structure) fails with
\* NotFound and creates no GradeBook.
ProgramLacksConfiguration(classId) ==
    \E c \in classes :
       /\ c.id = classId
       /\ \/ ProgramAssessmentSystem(GroupProgram(c.classGroupId)) = <<>>
          \/ ProgramTermStructures(GroupProgram(c.classGroupId)) = <<>>

C9_ConfigurationExists ==
    /\ [](\A g \in gradeBooks : /\ g.assessmentSystemId \in assessmentSystems
                                /\ g.termStructureId \in TermStructureIds)
    /\ [][(lastOp'.op = "initializeGradeBook" /\ ProgramLacksConfiguration(lastOp'.args[1]))
            => (/\ lastOp'.error \in {"NotFound:AssessmentSystem", "NotFound:TermStructure"}
                /\ UNCHANGED <<classes, gradeBooks>>)]_vars

\* C10: every SubjectGradeRecord made with a GradeBook has exactly one
\* assessmentPeriodGrades entry, zeroed, for each assessment period of the
\* GradeBook's TermStructure, and none for any other period.
C10_PeriodEntries ==
    \A r \in subjectRecords : r.id.kind = "auto" =>
       \E g \in gradeBooks :
          /\ g.id = r.gradeBookId
          /\ r.assessmentPeriodGrades.fmt = "object"
          /\ r.assessmentPeriodGrades.keys = PeriodsOf(g.termStructureId)
          /\ \A p \in r.assessmentPeriodGrades.keys :
                /\ r.assessmentPeriodGrades.val[p].obtainedMarks = 0
                /\ r.assessmentPeriodGrades.val[p].totalMarks = 0
                /\ r.assessmentPeriodGrades.val[p].percentage = RZero

\* ------------------------------------------------------------------------
\* Term results
\* ------------------------------------------------------------------------
GradeBookById(gradeBookId) == CHOOSE g \in gradeBooks : g.id = gradeBookId

\* the term grades of the subjects of a grade book's class group
TermGradesOf(gradeBookId, studentId, termId) ==
    LET g == GradeBookById(gradeBookId)
        subjectSeq == GroupSubjects(ClassOf(g).classGroupId)
    IN  [i \in DOMAIN subjectSeq |->
           calculateSubjectTermGrade(calcIn.weights, calcIn.subs, subjectSeq[i], termId,
                                     studentId, g.assessmentSystemId)]

RowsOf(rows, studentId, termId) ==
    { r \in rows : r.studentId = studentId /\ r.programTermId = termId }

\* C7: there is at most one TermResult per (student, term); after a
\* calculateCumulativeGrade call that completed, the row of its key holds
\* the gpa, totalCredits and earnedCredits the call returned and the rows of
\* the other keys are as before; a call that failed changes no row.
C7_OneTermResultPerKey ==
    /\ [](\A r \in termResults : RowsOf(termResults, r.studentId, r.programTermId) = {r})
    /\ [][lastOp'.op = "calculateCumulativeGrade" =>
            IF lastOp'.error = "none"
            THEN /\ RowsOf(termResults', lastOp'.args[2], lastOp'.args[3])
                      = {[studentId |-> lastOp'.args[2], programTermId |-> lastOp'.args[3],
                          gpa |-> lastOp'.result.gpa,
                          totalCredits |-> lastOp'.result.totalCredits,
                          earnedCredits |-> lastOp'.result.earnedCredits]}
                 /\ termResults' \ RowsOf(termResults', lastOp'.args[2], lastOp'.args[3])
                      = termResults \ RowsOf(termResults, lastOp'.args[2], lastOp'.args[3])
            ELSE termResults' = termResults]_vars

C7_Witness ==
    /\ lastOp.op = "calculateCumulativeGrade"
    /\ lastOp.error = "none"
    /\ lastOp.args[1] = "b2"
    /\ RowsOf(termResults, "s1", "T1") = {[studentId |-> "s1", programTermId |-> "T1",
                                           gpa |-> RZero, totalCredits |-> 0,
                                           earnedCredits |-> 0]}
    /\ \E r \in termResults : r.studentId = "s2" /\ r.totalCredits = 5
    /\ calcIn.subs # <<>> /\ calcIn.subs[1].studentId = "s1"

\* the students a batch over a grade book calculates
BatchStudents(gradeBookId) ==
    { s \in Students : \E g \in gradeBooks : g.id = gradeBookId /\ g.classId = StudentClass(s) }

\* C8: in batchCalculateCumulativeGrades a student whose calculation throws
\* does not fail the batch: the call returns without error, every other
\* student's calculation (of the same chunk and of later chunks) runs and
\* its TermResult is upserted, and the failing student's TermResult is not
\* written.
C8_BatchIsolation ==
    [][(lastOp'.op = "batchCalculateCumulativeGrades" /\ ~lastOp'.args[5]) =>
         /\ lastOp'.error = "none"
         /\ \A s \in BatchStudents(lastOp'.args[1]) :
               IF s \in lastOp'.args[4]
               THEN RowsOf(termResults', s, lastOp'.args[2])
                      = RowsOf(termResults, s, lastOp'.args[2])
               ELSE \E r \in RowsOf(termResults', s, lastOp'.args[2]) :
                      CumulativeGradeData(r.gpa, r.totalCredits, r.earnedCredits)
                        = calculateCumulativeGrade(Tables, lastOp'.args[1], s,
                                                   lastOp'.args[2], 0).result]_vars

C8_Witness ==
    /\ lastOp.op = "batchCalculateCumulativeGrades"
    /\ lastOp.args = <<"b1", "T1", 2, {"s2"}, FALSE>>
    /\ lastOp.error = "none"
    /\ RowsOf(termResults, "s1", "T1") # {}
    /\ RowsOf(termResults, "s2", "T1") = {}
    /\ RowsOf(termResults, "s3", "T1") # {}

\* ------------------------------------------------------------------------
\* Settings resolution: the class group's override rows over the program's
\* defaults (TermManagementService, GradeBookService, ClassGroupService)
\* ------------------------------------------------------------------------
MaxOverrideTerms == 2

\* new Date(isoString): the Date of the day the string names
NewDate(s) ==
    [time |-> CASE s = "2025-01-06" -> 6 [] s = "2025-01-20" -> 20
                [] s = "2025-03-28" -> 87 [] s = "2025-04-07" -> 97
                [] s = "2025-05-30" -> 150 [] s = "2025-06-27" -> 178
                [] OTHER -> 0]

\* programTerm.academicTerms with their assessmentPeriods, as the store
\* returns them
AcademicTerms(ts) ==
    IF ts = "ts1"
    THEN <<[id |-> "T1", startDate |-> NewDate("2025-01-06"),
            endDate |-> NewDate("2025-03-28"), assessmentPeriods |-> <<"P1", "P2">>],
           [id |-> "T2", startDate |-> NewDate("2025-04-07"),
            endDate |-> NewDate("2025-06-27"), assessmentPeriods |-> <<"P3">>]>>
    ELSE <<>>

\* interface CustomTerm: the dates are strings in the payload
CustomTerm(termId, startDate, endDate, assessmentPeriods) ==
    [termId |-> termId, startDate |-> startDate, endDate |-> endDate,
     assessmentPeriods |-> assessmentPeriods]

CustomTermValues ==
    { CustomTerm("T1", "2025-01-20", "2025-03-28", <<"P1">>),
      CustomTerm("T1", "2025-01-06", "2025-05-30", <<>>),
      CustomTerm("T2", "2025-04-07", "2025-05-30", <<"P3", "P4">>),
      CustomTerm("TX", "2025-01-20", "2025-05-30", <<"P1">>) }

\* interface CustomSettings as the Json column customSettings holds it:
\* fmt is "object" (a JSON object), "string" (a JSON string holding
\* JSON.stringify of the object) or "null"; hasTerms tells whether the
\* object has a `terms` property
CustomSettings(fmt, hasTerms, terms) == [fmt |-> fmt, hasTerms |-> hasTerms, terms |-> terms]
NoCustomSettings == CustomSettings("null", FALSE, <<>>)

TermPayloads ==
    {NoCustomSettings}
    \cup { CustomSettings(f, FALSE, <<>>) : f \in {"object", "string"} }
    \cup { CustomSettings(f, TRUE, t)
           : f \in {"object", "string"}, t \in SeqsUpTo(CustomTermValues, MaxOverrideTerms) }

\* the ClassGroupTermSettings rows the class group g1 can have: none or one
TermSettingsRows ==
    {<<>>} \cup { <<[programTerm |-> "ts1", isCustomized |-> b, customSettings |-> p]>>
                  : b \in BOOLEAN, p \in TermPayloads }

\* the customSettings of a ClassGroupAssessmentSettings row: the overridden
\* fields of the assessment system
AssessmentPayloads ==
    { JsonNull, EmptyObject,
      Json("object", {"name"}, [name |-> "Marks (custom)"]),
      Json("object", {"name", "type"}, [name |-> "Bands", type |-> "RUBRIC"]) }

\* the ClassGroupAssessmentSettings rows the class group g1 can have
AssessmentSettingsRows ==
    {<<>>} \cup { <<[assessmentSystemId |-> a, isCustomized |-> b, customSettings |-> p]>>
                  : a \in {"as1"}, b \in BOOLEAN, p \in AssessmentPayloads }

\* the rows of a class group: g1's are the state, the other groups have none
TermSettingsOf(classGroupId) == IF classGroupId = "g1" THEN groupSettings.term ELSE <<>>
AssessmentSettingsOf(classGroupId) ==
    IF classGroupId = "g1" THEN groupSettings.assessment ELSE <<>>

\* `x ? ... : ...` on a Json value: null (and undefined) is falsy, an object
\* and a JSON text are truthy
Truthy(json) == json.fmt # "null"

\* The mutated merge: the matched term takes the override's dates only
mergeTermSettingsDatesOnly(terms, customSettings) ==
    IF ~customSettings.hasTerms THEN terms
    ELSE [i \in DOMAIN terms |->
            LET found == { j \in DOMAIN customSettings.terms :
                             customSettings.terms[j].termId = terms[i].id }
            IN  IF found = {} THEN terms[i]
                ELSE LET customTerm ==
                           customSettings.terms[CHOOSE j \in found : \A k \in found : j <= k]
                     IN  [terms[i] EXCEPT !.startDate = NewDate(customTerm.startDate),
                                          !.endDate = NewDate(customTerm.endDate)]]

\* TermManagementService.mergeTermSettings: terms.map over the default
\* terms; `find` takes the first override entry whose termId is the term's
mergeTermSettings(terms, customSettings) ==
    IF ~customSettings.hasTerms THEN terms
    ELSE [i \in DOMAIN terms |->
            LET found == { j \in DOMAIN customSettings.terms :
                             customSettings.terms[j].termId = terms[i].id }
            IN  IF found = {} THEN terms[i]
                ELSE LET customTerm ==
                           customSettings.terms[CHOOSE j \in found : \A k \in found : j <= k]
                     IN  [terms[i] EXCEPT !.startDate = NewDate(customTerm.startDate),
                                          !.endDate = NewDate(customTerm.endDate),
                                          !.assessmentPeriods = customTerm.assessmentPeriods]]

\* TermManagementService.getClassGroupTerms: the first term-settings row of
\* the class group; JSON.parse(customSettings as string) of a truthy payload
\* that is an object parses "[object Object]" and throws
getClassGroupTerms(classGroupId) ==
    LET rows == TermSettingsOf(classGroupId)
    IN  IF rows = <<>> THEN [err |-> "Error:Term settings not found", terms |-> <<>>]
        ELSE IF ~Truthy(rows[1].customSettings)
        THEN [err |-> "none",
              terms |-> mergeTermSettings(AcademicTerms(rows[1].programTerm), NoCustomSettings)]
        ELSE IF ~ParsesAsString(rows[1].customSettings)
        THEN [err |-> "SyntaxError", terms |-> <<>>]
        ELSE [err |-> "none",
              terms |-> mergeTermSettings(AcademicTerms(rows[1].programTerm),
                                          rows[1].customSettings)]

\* a ProgramTermStructure row; academicTerms is there when it was included
TermStructure(id, included) ==
    [id |-> id, included |-> included,
     academicTerms |-> IF included THEN AcademicTerms(id) ELSE <<>>]
NoTermStructure == TermStructure("", FALSE)

\* TermManagementService.inheritClassGroupTerms with what it returns: the
\* programTerm of the first term-settings row is loaded without its
\* academicTerms, so merging an override into it calls `map` of undefined
inheritClassGroupTermsResolved(classGroupId) ==
    LET rows == TermSettingsOf(classGroupId)
        programTerms == ProgramTermStructures(GroupProgram(classGroupId))
        Thrown(e) == [err |-> e, structure |-> NoTermStructure]
    IN  IF classGroupId \notin ClassGroupIds THEN Thrown("NotFound:ClassGroup")
        ELSE IF rows = <<>>
        THEN IF programTerms = <<>> THEN Thrown("NotFound:TermStructure")
             ELSE [err |-> "none", structure |-> TermStructure(programTerms[1], TRUE)]
        ELSE IF ~Truthy(rows[1].customSettings)
        THEN [err |-> "none", structure |-> TermStructure(rows[1].programTerm, FALSE)]
        ELSE IF ~ParsesAsString(rows[1].customSettings) THEN Thrown("SyntaxError")
        ELSE IF rows[1].customSettings.hasTerms THEN Thrown("TypeError")
        ELSE [err |-> "none", structure |-> TermStructure(rows[1].programTerm, FALSE)]

\* { ...assessmentSystem, ...customSettings }: spreading null adds nothing
SpreadJson(base, json) ==
    [f \in DOMAIN base \cup json.keys |-> IF f \in json.keys THEN json.val[f] ELSE base[f]]

NoAssessmentSystem == [id |-> "", name |-> "", type |-> ""]

\* GradeBookService.resolveAndInheritAssessmentSystem with what it returns
resolveAndInheritAssessmentSystemResolved(classGroupId) ==
    LET base == ProgramAssessmentSystem(GroupProgram(classGroupId))
        rows == AssessmentSettingsOf(classGroupId)
        mine == SelectSeq(rows, LAMBDA r : base # <<>> /\ r.assessmentSystemId = base[1].id)
    IN  IF classGroupId \notin ClassGroupIds
        THEN [err |-> "NotFound:ClassGroup", system |-> NoAssessmentSystem]
        ELSE IF base = <<>>
        THEN [err |-> "NotFound:AssessmentSystem", system |-> NoAssessmentSystem]
        ELSE [err |-> "none",
              system |-> IF mine # <<>> /\ mine[1].isCustomized
                         THEN SpreadJson(base[1], mine[1].customSettings)
                         ELSE base[1]]

\* `${name} - Class Copy`
ClassCopyName(name) ==
    CASE name = "Marks" -> "Marks - Class Copy"
      [] name = "Rubric" -> "Rubric - Class Copy"
      [] OTHER -> " - Class Copy"

\* GradeBookService.resolveAndInheritAssessmentSystem, the version that
\* copies the program's assessment system, with what it returns: the new
\* row; the class group's settings rows are not read
resolveAndInheritAssessmentSystemCloneResolved(classGroupId, cloneId) ==
    LET base == ProgramAssessmentSystem(GroupProgram(classGroupId))
    IN  IF classGroupId \notin ClassGroupIds \/ base = <<>>
        THEN [err |-> "NotFound:AssessmentSystem", system |-> NoAssessmentSystem]
        ELSE [err |-> "none",
              system |-> [id |-> cloneId, name |-> ClassCopyName(base[1].name),
                          type |-> base[1].type]]

\* GradeBookService.resolveAssessmentSystem(classData) with what it returns
resolveAssessmentSystemResolved(classGroupId) ==
    IF resolveAssessmentSystem(classGroupId).err # "none"
    THEN [err |-> resolveAssessmentSystem(classGroupId).err, system |-> NoAssessmentSystem]
    ELSE resolveAndInheritAssessmentSystemResolved(classGroupId)

\* ClassGroupService.updateTermSettings: upsert of the row with
\* isCustomized = !!customSettings; an undefined customSettings leaves the
\* column of an existing row as it is
updateTermSettings(rows, customSettings) ==
    <<[programTerm |-> "ts1", isCustomized |-> Truthy(customSettings),
       customSettings |-> IF rows # <<>> /\ ~Truthy(customSettings)
                          THEN rows[1].customSettings ELSE customSettings]>>

\* ClassGroupService.updateClassGroupSettings: the same upsert on the
\* ClassGroupAssessmentSettings row
updateClassGroupSettings(rows, assessmentSystemId, customSettings) ==
    <<[assessmentSystemId |-> assessmentSystemId, isCustomized |-> Truthy(customSettings),
       customSettings |-> IF rows # <<>> /\ ~Truthy(customSettings)
                          THEN rows[1].customSettings ELSE customSettings]>>

InitSettings ==
    /\ Load(LifeStart)
    /\ enforceFK = TRUE
    /\ calcIn = [weights |-> DefaultPeriodWeights, subs |-> <<>>]
    /\ groupSettings \in [term : TermSettingsRows, assessment : AssessmentSettingsRows]
    /\ running = Idle
    /\ NoExt
    /\ lastOp = NoOp

SettingsFrame ==
    UNCHANGED <<classes, gradeBooks, subjectRecords, assessmentSystems, termResults,
                gradeHistory, enforceFK, calcIn, ext, running>>

UpdateTermSettings(customSettings) ==
    /\ groupSettings' = [groupSettings EXCEPT
                           !.term = updateTermSettings(@, customSettings)]
    /\ lastOp' = Op("updateTermSettings", <<"g1">>, "none", NoResult)
    /\ SettingsFrame

UpdateClassGroupSettings(customSettings) ==
    /\ groupSettings' = [groupSettings EXCEPT
                           !.assessment = updateClassGroupSettings(@, "as1", customSettings)]
    /\ lastOp' = Op("updateClassGroupSettings", <<"g1">>, "none", NoResult)
    /\ SettingsFrame

GetClassGroupTerms(classGroupId) ==
    /\ \E r \in { getClassGroupTerms(classGroupId) } :
          lastOp' = Op("getClassGroupTerms", <<classGroupId>>, r.err, r.terms)
    /\ SettingsFrame /\ UNCHANGED groupSettings

InheritClassGroupTerms(classGroupId) ==
    /\ \E r \in { inheritClassGroupTermsResolved(classGroupId) } :
          lastOp' = Op("inheritClassGroupTerms", <<classGroupId>>, r.err, r.structure)
    /\ SettingsFrame /\ UNCHANGED groupSettings

ResolveAndInheritAssessmentSystem(classGroupId) ==
    /\ \E r \in { resolveAndInheritAssessmentSystemResolved(classGroupId) } :
          lastOp' = Op("resolveAndInheritAssessmentSystem", <<classGroupId>>, r.err, r.system)
    /\ SettingsFrame /\ UNCHANGED groupSettings

ResolveAndInheritAssessmentSystemClone(classGroupId) ==
    /\ \E r \in { resolveAndInheritAssessmentSystemCloneResolved(classGroupId,
                                                                  NextCloneId(Tables)) } :
          lastOp' = Op("resolveAndInheritAssessmentSystemClone", <<classGroupId>>,
                       r.err, r.system)
    /\ SettingsFrame /\ UNCHANGED groupSettings

ResolveAssessmentSystem(classGroupId) ==
    /\ \E r \in { resolveAssessmentSystemResolved(classGroupId) } :
          lastOp' = Op("resolveAssessmentSystem", <<classGroupId>>, r.err, r.system)
    /\ SettingsFrame /\ UNCHANGED groupSettings

SettingsArgs == {"g1", "g3", "gX"}

NextSettings ==
    \/ \E p \in TermPayloads : UpdateTermSettings(p)
    \/ \E p \in AssessmentPayloads : UpdateClassGroupSettings(p)
    \/ \E g \in SettingsArgs : GetClassGroupTerms(g)
    \/ \E g \in SettingsArgs : InheritClassGroupTerms(g)
    \/ \E g \in SettingsArgs : ResolveAndInheritAssessmentSystem(g)
    \/ \E g \in SettingsArgs : ResolveAndInheritAssessmentSystemClone(g)
    \/ \E g \in SettingsArgs : ResolveAssessmentSystem(g)

SpecSettings == InitSettings /\ [][NextSettings]_vars

\* ------------------------------------------------------------------------
\* Claims about settings resolution
\* ------------------------------------------------------------------------
\* the override payload of g1's term-settings row
TermOverride == groupSettings.term[1].customSettings

C12_OverrideOnlyWhenCustomized ==
    [][(/\ lastOp'.op \in {"getClassGroupTerms", "inheritClassGroupTerms"}
        /\ lastOp'.args = <<"g1">>
        /\ (groupSettings.term = <<>> \/ ~groupSettings.term[1].isCustomized))
       => /\ lastOp'.error = "none"
          /\ IF lastOp'.op = "getClassGroupTerms"
             THEN lastOp'.result = AcademicTerms("ts1")
             ELSE /\ lastOp'.result.id = "ts1"
                  /\ lastOp'.result.included
                       => lastOp'.result.academicTerms = AcademicTerms("ts1")]_vars

\* the ClassGroupAssessmentSettings row of g1 for the program's assessment
\* system is there and flagged customized
AssessmentCustomized ==
    /\ groupSettings.assessment # <<>>
    /\ groupSettings.assessment[1].assessmentSystemId = "as1"
    /\ groupSettings.assessment[1].isCustomized

\* C13: every assessment-system resolver returns, for g1, the program's
\* assessment system with the fields of the override payload put over it
\* when the class group's settings row for that system is flagged
\* customized, and the program's assessment system unchanged otherwise.
C13_ShallowMergeWhenCustomized ==
    [][(/\ lastOp'.op \in {"resolveAssessmentSystem", "resolveAndInheritAssessmentSystem",
                           "resolveAndInheritAssessmentSystemClone"}
        /\ lastOp'.args = <<"g1">>)
       => /\ lastOp'.error = "none"
          /\ lastOp'.result
               = IF AssessmentCustomized
                 THEN SpreadJson(ProgramAssessmentSystem("p1")[1],
                                 groupSettings.assessment[1].customSettings)
                 ELSE ProgramAssessmentSystem("p1")[1]]_vars

\* C14: resolving the assessment system of a class group whose settings
\* row is flagged customized and has a null customSettings fails with
\* InvalidState.
C14_CustomizedWithoutPayload ==
    [][(/\ lastOp'.op \in {"resolveAssessmentSystem", "resolveAndInheritAssessmentSystem"}
        /\ lastOp'.args = <<"g1">>
        /\ AssessmentCustomized
        /\ groupSettings.assessment[1].customSettings = JsonNull)
       => lastOp'.error = "InvalidState"]_vars

\* ------------------------------------------------------------------------
\* Claims about the update of a subject grade record
\* ------------------------------------------------------------------------
\* C18: an updateSubjectGradeRecord call for term T that completes leaves a
\* record of the grade book and subject whose termGrades holds the newly
\* computed grade under T, and every record of that grade book and subject
\* that was there before still has each of its other terms' entries, with
\* the value it had.
C18_OtherTermsKept ==
    [][(lastOp'.op = "updateSubjectGradeRecord" /\ lastOp'.error = "none")
       => /\ \E r \in subjectRecords' :
                /\ r.gradeBookId = lastOp'.args[1] /\ r.subjectId = lastOp'.args[2]
                /\ lastOp'.args[3] \in r.termGrades.keys
                /\ r.termGrades.val[lastOp'.args[3]].termId = lastOp'.args[3]
          /\ \A old \in subjectRecords :
                (old.gradeBookId = lastOp'.args[1] /\ old.subjectId = lastOp'.args[2])
                => \E r \in subjectRecords' :
                     /\ r.id = old.id
                     /\ \A k \in old.termGrades.keys \ {lastOp'.args[3]} :
                           /\ k \in r.termGrades.keys
                           /\ r.termGrades.val[k] = old.termGrades.val[k]]_vars

\* C23: every updateSubjectGradeRecord that succeeds appends exactly one
\* GradeHistory entry, of the student and the subject, by SYSTEM, whose
\* gradeValue is the finalGrade of the term grade just stored in the
\* record; and no step ever changes or removes a GradeHistory entry
C23_HistoryAppended ==
    /\ [][(lastOp'.op = "updateSubjectGradeRecord" /\ lastOp'.error = "none")
          => \E h \in gradeHistory' \ gradeHistory :
                /\ gradeHistory' = gradeHistory \cup {h}
                /\ h.subjectId = lastOp'.args[2]
                /\ h.studentId = lastOp'.args[4]
                /\ h.modifiedBy = "SYSTEM"
                /\ \E r \in subjectRecords' :
                      /\ r.gradeBookId = lastOp'.args[1]
                      /\ r.subjectId = lastOp'.args[2]
                      /\ lastOp'.args[3] \in r.termGrades.keys
                      /\ r.termGrades.val[lastOp'.args[3]].finalGrade = h.gradeValue]_vars
    /\ [][gradeHistory \subseteq gradeHistory']_vars

\* ------------------------------------------------------------------------
\* updateSubjectGradeRecord calls in flight together: each call is a
\* sequence of awaits (the read with the term grade, the upsert, the history
\* entry), and the steps of different calls interleave
\* ------------------------------------------------------------------------
MaxCalls == 2

\* a call in flight: pc is the await it waits at, read the termGrades its
\* findUnique returned (JsonNull: no record, or none read yet)
UpdateCall(studentId, termId, pc, read) ==
    [studentId |-> studentId, termId |-> termId, pc |-> pc, read |-> read]

\* the record the calls of this section work on: subject A in the grade
\* book of class c4, which has no record for it yet
RaceGradeBook == "b2"
RaceSubject == "A"

\* const [termGrade, existingRecord] = await Promise.all([..., findUnique])
readSubjectRecord(db, gradeBookId, subjectId) ==
    LET existing == { r \in db.subjectRecords : r.id = CompositeId(gradeBookId, subjectId) }
    IN  IF existing = {} THEN JsonNull ELSE (CHOOSE r \in existing : TRUE).termGrades

\* JSON.parse of what was read, then subjectGradeRecord.upsert with the
\* term grade spread over it
upsertSubjectRecord(db, gradeBookId, subjectId, termId, studentId, read) ==
    LET termGrade == calculateSubjectTermGrade(calcIn.weights, calcIn.subs, subjectId,
                                               termId, studentId, gradeBookId)
        existingTermGrades == IF read.fmt = "null" THEN EmptyObject ELSE read
    IN  IF read.fmt # "null" /\ ~ParsesAsString(read)
        THEN [db |-> db, err |-> "SyntaxError"]
        ELSE Only({ [db |-> ctx.c, err |-> ctx.err]
                    : ctx \in { subjectRecordUpsert(Begin(db), "db",
                                  CompositeId(gradeBookId, subjectId), gradeBookId, subjectId,
                                  SpreadTermGrade(existingTermGrades, termId, termGrade),
                                  SpreadTermGrade(EmptyObject, termId, termGrade)) } })

\* await this.recordGradeHistory(studentId, subjectId, termGrade)
appendGradeHistory(db, gradeBookId, subjectId, termId, studentId) ==
    recordGradeHistory(Begin(db), "db", studentId, subjectId,
                       calculateSubjectTermGrade(calcIn.weights, calcIn.subs, subjectId,
                                                 termId, studentId, gradeBookId)).c

InitRace ==
    /\ enforceFK \in BOOLEAN
    /\ \E db \in { TermStart } : Load(db)
    /\ calcIn = [weights |-> TermWeights, subs |-> TermRows]
    /\ groupSettings = NoSettings
    /\ running = Idle
    /\ NoExt
    /\ lastOp = NoOp

\* a call is made for a student who has none in flight
StartUpdate(studentId, termId) ==
    /\ Cardinality(running) < MaxCalls
    /\ Cardinality(gradeHistory) + Cardinality(running) < MaxHistory
    /\ ~\E c \in running : c.studentId = studentId
    /\ running' = running \cup {UpdateCall(studentId, termId, "read", JsonNull)}
    /\ UNCHANGED <<classes, gradeBooks, subjectRecords, assessmentSystems, termResults,
                   gradeHistory, enforceFK, calcIn, ext, groupSettings, lastOp>>

ReadRecord(c) ==
    /\ c.pc = "read"
    /\ running' = (running \ {c})
                    \cup {UpdateCall(c.studentId, c.termId, "upsert",
                                     readSubjectRecord(Tables, RaceGradeBook, RaceSubject))}
    /\ UNCHANGED <<classes, gradeBooks, subjectRecords, assessmentSystems, termResults,
                   gradeHistory, enforceFK, calcIn, ext, groupSettings, lastOp>>

UpsertRecord(c) ==
    /\ c.pc = "upsert"
    /\ \E r \in { upsertSubjectRecord(Tables, RaceGradeBook, RaceSubject, c.termId,
                                      c.studentId, c.read) } :
          /\ Commit(r.db)
          /\ IF r.err = "none"
             THEN /\ running' = (running \ {c})
                                  \cup {UpdateCall(c.studentId, c.termId, "history", c.read)}
                  /\ UNCHANGED lastOp
             ELSE /\ running' = running \ {c}
                  /\ lastOp' = Op("updateSubjectGradeRecord",
                                  <<RaceGradeBook, RaceSubject, c.termId, c.studentId, 0>>,
                                  r.err, NoResult)
    /\ UNCHANGED <<enforceFK, calcIn, ext, groupSettings>>

RecordHistory(c) ==
    /\ c.pc = "history"
    /\ Commit(appendGradeHistory(Tables, RaceGradeBook, RaceSubject, c.termId, c.studentId))
    /\ running' = running \ {c}
    /\ lastOp' = Op("updateSubjectGradeRecord",
                    <<RaceGradeBook, RaceSubject, c.termId, c.studentId, 0>>,
                    "none", NoResult)
    /\ UNCHANGED <<enforceFK, calcIn, ext, groupSettings>>

NextRace ==
    \/ \E s \in Students, t \in TermIds : StartUpdate(s, t)
    \/ \E c \in running : ReadRecord(c)
    \/ \E c \in running : UpsertRecord(c)
    \/ \E c \in running : RecordHistory(c)

SpecRace == InitRace /\ [][NextRace]_vars

\* C19: of the updateSubjectGradeRecord calls in flight for different
\* students, no two are between their read and their upsert of the same
\* SubjectGradeRecord at the same time, and no step removes from a record a
\* termGrades entry that was on it.
C19_NoLostTermGrade ==
    /\ [](\A c1, c2 \in running : (c1.pc = "upsert" /\ c2.pc = "upsert") => c1 = c2)
    /\ [][\A old \in subjectRecords :
            \E r \in subjectRecords' :
               r.id = old.id /\ old.termGrades.keys \subseteq r.termGrades.keys]_vars

\* ------------------------------------------------------------------------
\* batchCalculateCumulativeGrades await by await: the loop over the chunks,
\* the calculations of a chunk in flight together, the pause between chunks
\* ------------------------------------------------------------------------
\* a call in flight: the batch itself (pc "loop": at the loop test with
\* chunk start i; "await": inside Promise.all; "pause": inside the timeout;
\* log: the students whose calculation it has started) or the calculation
\* of one student (pc "find": awaiting the grade book; "record": awaiting
\* the TermResult upsert)
BatchCall(gradeBookId, batchSize, pc, i, log) ==
    [call |-> "batch", gradeBookId |-> gradeBookId, studentId |-> "",
     batchSize |-> batchSize, pc |-> pc, i |-> i, log |-> log]
CalcCall(gradeBookId, studentId, pc) ==
    [call |-> "calc", gradeBookId |-> gradeBookId, studentId |-> studentId,
     batchSize |-> 0, pc |-> pc, i |-> 0, log |-> <<>>]

InFlight(calls) == { c \in calls : c.call = "calc" }

\* Array.prototype.slice's reading of an index (from 0): a negative one
\* counts from the end, and both kinds are clamped to 0 .. length
sliceIndex(k, len) ==
    IF k < 0 THEN (IF len + k < 0 THEN 0 ELSE len + k)
    ELSE IF k < len THEN k ELSE len

\* seq.slice(start, end), indices from 0: empty when end is not after start
slice(seq, start, end) ==
    SubSeq(seq, sliceIndex(start, Len(seq)) + 1, sliceIndex(end, Len(seq)))

\* students.slice(i, i + batchSize), the chunk that starts at i (from 1)
Chunk(students, i, batchSize) == slice(students, i - 1, i - 1 + batchSize)

\* The mutated await: the batch goes on without waiting for its chunk
ChunkSettledAtOnce(calls) == TRUE

\* await Promise.all(...): every member of the chunk has settled (a member
\* that throws settles through its catch)
ChunkSettled(calls) == InFlight(calls) = {}

InitBatch ==
    /\ enforceFK \in BOOLEAN
    /\ \E db \in { TermStart } : Load(db)
    /\ calcIn = [weights |-> TermWeights, subs |-> TermRows]
    /\ groupSettings = NoSettings
    /\ running = Idle
    /\ NoExt
    /\ lastOp = NoOp

BatchFrame ==
    UNCHANGED <<classes, gradeBooks, subjectRecords, assessmentSystems, termResults,
                gradeHistory, enforceFK, calcIn, ext, groupSettings>>

\* the call: the students are fetched, the loop begins
StartBatch(gradeBookId, batchSize) ==
    /\ running = Idle
    /\ running' = {BatchCall(gradeBookId, batchSize, "loop", 1, <<>>)}
    /\ UNCHANGED lastOp
    /\ BatchFrame

\* i < students.length: batch.map starts the calculation of every student
\* of the chunk, each up to its first await
LaunchChunk(b) ==
    /\ b.call = "batch" /\ b.pc = "loop"
    /\ b.i <= Len(findStudents(Tables, b.gradeBookId))
    /\ \E chunk \in { Chunk(findStudents(Tables, b.gradeBookId), b.i, b.batchSize) } :
          running' = (running \ {b})
                       \cup {BatchCall(b.gradeBookId, b.batchSize, "await", b.i, b.log \o chunk)}
                       \cup { CalcCall(b.gradeBookId, chunk[k], "find") : k \in DOMAIN chunk }
    /\ UNCHANGED lastOp
    /\ BatchFrame

\* calculateCumulativeGrade: the grade book has arrived; without one the
\* call throws and its catch settles it
CalcFind(c) ==
    /\ c.call = "calc" /\ c.pc = "find"
    /\ running' = IF \E g \in gradeBooks : g.id = c.gradeBookId
                  THEN (running \ {c}) \cup {CalcCall(c.gradeBookId, c.studentId, "record")}
                  ELSE running \ {c}
    /\ UNCHANGED lastOp
    /\ BatchFrame

\* calculateCumulativeGrade: the TermResult upsert returns or throws; either
\* way the member settles
CalcRecord(c, fails) ==
    /\ c.call = "calc" /\ c.pc = "record"
    /\ \E r \in { calculateCumulativeGrade(Tables, c.gradeBookId, c.studentId, "T1",
                                           IF fails THEN 2 ELSE 0) } :
          Commit(r.db)
    /\ running' = running \ {c}
    /\ UNCHANGED <<enforceFK, calcIn, ext, groupSettings, lastOp>>

\* i += batchSize is followed while i stays within MaxDescent below the
\* start of the list (a negative batchSize lowers i without end)
MaxDescent == 2

Advances(b) == b.i + b.batchSize >= 1 - MaxDescent

\* Promise.all has resolved: the pause when another chunk follows, else on
\* to the loop test
JoinChunk(b) ==
    /\ b.call = "batch" /\ b.pc = "await"
    /\ ChunkSettled(running)
    /\ Advances(b)
    /\ running' = (running \ {b})
                    \cup {IF b.i - 1 + b.batchSize < Len(findStudents(Tables, b.gradeBookId))
                          THEN BatchCall(b.gradeBookId, b.batchSize, "pause", b.i, b.log)
                          ELSE BatchCall(b.gradeBookId, b.batchSize, "loop",
                                         b.i + b.batchSize, b.log)}
    /\ UNCHANGED lastOp
    /\ BatchFrame

\* the timeout of the pause has fired: i += batchSize
ResumeBatch(b) ==
    /\ b.call = "batch" /\ b.pc = "pause"
    /\ Advances(b)
    /\ running' = (running \ {b})
                    \cup {BatchCall(b.gradeBookId, b.batchSize, "loop",
                                    b.i + b.batchSize, b.log)}
    /\ UNCHANGED lastOp
    /\ BatchFrame

\* i >= students.length: the call returns
FinishBatch(b) ==
    /\ b.call = "batch" /\ b.pc = "loop"
    /\ b.i > Len(findStudents(Tables, b.gradeBookId))
    /\ running' = running \ {b}
    /\ lastOp' = Op("batchCalculateCumulativeGrades",
                    <<b.gradeBookId, "T1", b.batchSize, b.log>>, "none", NoResult)
    /\ BatchFrame

BatchSteps ==
    \/ \E b \in running : LaunchChunk(b)
    \/ \E c \in running : CalcFind(c)
    \/ \E c \in running, fails \in BOOLEAN : CalcRecord(c, fails)
    \/ \E b \in running : JoinChunk(b)
    \/ \E b \in running : ResumeBatch(b)
    \/ \E b \in running : FinishBatch(b)

NextBatch ==
    \/ \E g \in {"b1", "b2"}, n \in 1 .. MaxBatchSize : StartBatch(g, n)
    \/ BatchSteps

\* every await of the call resumes once what it waits for has settled: the
\* store answers or throws, the timer fires
SpecBatch == InitBatch /\ [][NextBatch]_vars /\ WF_vars(BatchSteps)

MaxNegative == 1

BatchSizes == (0 - MaxNegative) .. MaxBatchSize

NextBatchAny ==
    \/ \E g \in {"b1", "b2"}, n \in BatchSizes : StartBatch(g, n)
    \/ BatchSteps

SpecBatchAny == InitBatch /\ [][NextBatchAny]_vars /\ WF_vars(BatchSteps)

\* C26: every passage of the chunk loop from its body back to its test has
\* raised the index i, and a batch that was called returns.
C26_Terminates ==
    /\ [][\A b \in running, a \in running' :
            (/\ b.call = "batch" /\ a.call = "batch"
             /\ b.pc \in {"await", "pause"} /\ a.pc = "loop") => a.i > b.i]_vars
    /\ (running # Idle) ~> (running = Idle)

\* ------------------------------------------------------------------------
\* ActivityGradeService.recordActivityGrade: the grade of one activity is
\* recorded and entered in the subject record's assessmentPeriodGrades
\* ------------------------------------------------------------------------
MaxActivityGrades == 2

ActivityIds == {"a1", "a2"}

\* interface ActivityGrade: what the caller records
ActivityGrade(activityId, studentId, grade, assessmentPeriodId, subjectId) ==
    [activityId |-> activityId, studentId |-> studentId, grade |-> grade,
     assessmentPeriodId |-> assessmentPeriodId, subjectId |-> subjectId]

\* one entry of assessmentPeriodGrades: the zeroed grade of the period with
\* the activities entered so far (<<>>: the entry has no `activities` yet)
ActivityPeriodGrade(weight, activities) ==
    [totalMarks |-> 0, obtainedMarks |-> 0, percentage |-> RZero, weight |-> weight,
     isPassing |-> FALSE, gradePoints |-> RZero, activities |-> activities]

\* tx.activityGrade.create: the activity, the student and the assessment
\* period are connected by id and must exist
activityGradeCreate(rows, data) ==
    IF \/ data.activityId \notin ActivityIds
       \/ data.studentId \notin Students
       \/ data.assessmentPeriodId \notin PeriodIds
    THEN [err |-> "RecordNotFound", rows |-> rows]
    ELSE [err |-> "none",
          rows |-> rows \cup {[id |-> Cardinality(rows) + 1,
                               activityId |-> data.activityId,
                               studentId |-> data.studentId, value |-> data.grade,
                               assessmentPeriodId |-> data.assessmentPeriodId,
                               status |-> "ACTIVE"]}]

\* subjectGradeRecord.findFirst: the record of the subject in the grade book
\* of a class the student is in
findSubjectRecord(db, subjectId, studentId) ==
    { r \in db.subjectRecords :
        /\ r.subjectId = subjectId
        /\ \E g \in db.gradeBooks : g.id = r.gradeBookId /\ g.classId = StudentClass(studentId) }

\* findIndex by activityId, then the grade is replaced or the pair pushed
enterActivity(activities, data) ==
    IF \E i \in DOMAIN activities : activities[i].activityId = data.activityId
    THEN [i \in DOMAIN activities |->
            IF activities[i].activityId = data.activityId
               /\ \A j \in 1 .. i - 1 : activities[j].activityId # data.activityId
            THEN [activities[i] EXCEPT !.grade = data.grade]
            ELSE activities[i]]
    ELSE Append(activities, [activityId |-> data.activityId, grade |-> data.grade])

\* subjectGradeRecord.update({ where: { id }, data: { assessmentPeriodGrades } })
subjectRecordUpdate(ctx, via, id, assessmentPeriodGrades) ==
    LET Set(rows) == { IF r.id = id
                       THEN [r EXCEPT !.assessmentPeriodGrades = assessmentPeriodGrades]
                       ELSE r : r \in rows }
    IN  IF ~\E r \in View(ctx, via).subjectRecords : r.id = id
        THEN Throw(ctx, "RecordNotFound")
        ELSE [ctx EXCEPT !.t.subjectRecords = Set(@),
                         !.c.subjectRecords = IF via = "db" THEN Set(@) ELSE @]

\* updateAssessmentPeriodGrades(data), every call through the plain client:
\* JSON.parse(assessmentPeriodGrades as string) throws on an object and
\* gives null for null; the entry of the period is read without a test
updateAssessmentPeriodGrades(ctx, data, failAt) ==
    LET found == findSubjectRecord(ctx.c, data.subjectId, data.studentId)
        subjectRecord == CHOOSE r \in found : TRUE
        json == subjectRecord.assessmentPeriodGrades
        periodId == data.assessmentPeriodId
        entered == [k \in json.keys |->
                      IF k = periodId
                      THEN [json.val[k] EXCEPT !.activities = enterActivity(@, data)]
                      ELSE json.val[k]]
        s2 == Only({ Step(c, 2, failAt,
                 IF found = {} THEN Throw(c, "Error:Subject grade record not found")
                 ELSE IF json.fmt = "object" THEN Throw(c, "SyntaxError")
                 ELSE IF json.fmt = "null" \/ periodId \notin json.keys
                 THEN Throw(c, "TypeError")
                 ELSE c) : c \in {ctx} })
    IN  Only({ Step(c, 3, failAt,
                 subjectRecordUpdate(c, "db", subjectRecord.id,
                                     Json("string", json.keys, entered)))
               : c \in {s2} })

\* recordActivityGrade(data) inside db.$transaction: the row is created
\* through the transaction client; the record is updated and the period
\* grade recalculated (with no assessment system id, and its result
\* dropped) through the plain client.  `calls` lists the calculations made.
recordActivityGrade(db, rows, data, failAt) ==
    LET created == activityGradeCreate(rows, data)
        s1 == Only({ Step(c, 1, failAt,
                 IF created.err # "none" THEN Throw(c, created.err) ELSE c)
                 : c \in {Begin(db)} })
        s3 == Only({ updateAssessmentPeriodGrades(c, data, failAt) : c \in {s1} })
        s4 == Only({ Step(c, 4, failAt, c) : c \in {s3} })
    IN  Only({ [db |-> c.c,
                activityGrades |-> IF c.err = "none" THEN created.rows ELSE rows,
                err |-> c.err,
                calls |-> IF s3.err = "none" THEN <<"calculateAssessmentPeriodGrade">>
                          ELSE <<>>]
               : c \in {s4} })

\* Class n1 of class group g1 with its grade book and the record of subject
\* A, whose assessmentPeriodGrades holds the entry of period P1 or none, as
\* an object (as the grade book's initializers store it) or as JSON text
\* (as this service stores it)
ActivityStart(fmt, keys) ==
    [LifeStart EXCEPT
       !.classes = {[id |-> "n1", classGroupId |-> "g1", termStructureId |-> "ts1"]},
       !.gradeBooks = {[id |-> "b1", classId |-> "n1", assessmentSystemId |-> "as1",
                        termStructureId |-> "ts1"]},
       !.subjectRecords =
           {[id |-> AutoId(1), gradeBookId |-> "b1", subjectId |-> "A",
             termGrades |-> EmptyObject,
             assessmentPeriodGrades |->
                 Json(fmt, keys,
                      [k \in keys |-> ActivityPeriodGrade(DefaultPeriodWeights[k], <<>>)])]}]

InitActivity ==
    /\ \E fmt \in {"object", "string"}, keys \in {{}, {"P1"}} : Load(ActivityStart(fmt, keys))
    /\ enforceFK = TRUE
    /\ calcIn = [weights |-> DefaultPeriodWeights, subs |-> <<>>]
    /\ groupSettings = NoSettings /\ running = Idle
    /\ activityGrades = {}
    /\ termStructureRows = NoProgramTerms /\ classGroupTermSettings = {} /\ cache = <<>> /\ now = 0
    /\ lastOp = NoOp

RecordActivityGrade(data, failAt) ==
    /\ Cardinality(activityGrades) < MaxActivityGrades
    /\ \E r \in { recordActivityGrade(Tables, activityGrades, data, failAt) } :
           /\ Commit(r.db)
           /\ activityGrades' = r.activityGrades
           /\ lastOp' = Op("recordActivityGrade", <<data, failAt>>, r.err, r.calls)
    /\ UNCHANGED <<enforceFK, calcIn, groupSettings, running, termStructureRows,
                   classGroupTermSettings, cache, now>>

\* the grades recorded: two activities, two periods with and one without a
\* row, a subject with and one without a record
ActivityArgs ==
    { ActivityGrade(a, "s1", g, p, sj)
      : a \in ActivityIds \cup {"aX"}, g \in {60, 80}, p \in {"P1", "P2"},
        sj \in {"A", "Z"} }

NextActivity == \E data \in ActivityArgs, f \in 0 .. 4 : RecordActivityGrade(data, f)

SpecActivity == InitActivity /\ [][NextActivity]_vars

\* C21: a recorded activity grade is followed, in this order, by the
\* recalculation of the period grade, of the subject's term grade and of
\* the cumulative grade, and by a persisted TermResult of the student for
\* the term of the period
C21_WriteFlow ==
    [][(lastOp'.op = "recordActivityGrade" /\ lastOp'.error = "none")
       => /\ lastOp'.result = <<"calculateAssessmentPeriodGrade",
                                "calculateSubjectTermGrade", "calculateCumulativeGrade">>
          /\ \E t \in termResults' :
                /\ t.studentId = lastOp'.args[1].studentId
                /\ t.termId = PeriodTerm(lastOp'.args[1].assessmentPeriodId)]_vars

\* C27: a recordActivityGrade that fails leaves no ActivityGrade row of
\* the call and the subject records as they were
C27_AllOrNothing ==
    [][(lastOp'.op = "recordActivityGrade" /\ lastOp'.error # "none")
       => /\ activityGrades' = activityGrades
          /\ subjectRecords' = subjectRecords]_vars

\* ------------------------------------------------------------------------
\* TermManagementService: the program's term structures, the class groups'
\* term-settings rows, and the propagation of a program's new terms to them
\* ------------------------------------------------------------------------
MaxStructures == 1
MaxTermSeq == 2

\* the ids the store gives to the ProgramTermStructure rows it creates
NewStructureIds == <<"ts1", "ts3">>

\* classGroup.findMany({ where: { programId } }), in the store's order;
\* every class group is ACTIVE but g5
ClassGroupOrder == <<"g1", "g2", "g3", "g4", "g5">>
findClassGroups(programId) ==
    SelectSeq(ClassGroupOrder, LAMBDA g : GroupProgram(g) = programId)
ClassGroupStatus(g) == IF g = "g5" THEN "INACTIVE" ELSE "ACTIVE"

\* one of updates.terms: the calendar term it connects to and its
\* assessment periods
AcademicTermInput(calendarTermId, assessmentPeriods) ==
    [calendarTermId |-> calendarTermId, assessmentPeriods |-> assessmentPeriods]

TermInputs ==
    { <<AcademicTermInput("T1", <<"P1", "P2">>)>>,
      <<AcademicTermInput("T1", <<"P1">>), AcademicTermInput("T2", <<"P3">>)>>,
      <<AcademicTermInput("TX", <<>>)>> }

\* academicTerms: { create: terms.map(...) }: one AcademicTerm row per
\* input, under the next ids of the store, each connected to its calendar
\* term, which has to exist
createAcademicTerms(termSeq, input) ==
    [i \in DOMAIN input |->
        [id |-> termSeq + i, calendarTermId |-> input[i].calendarTermId,
         assessmentPeriods |-> input[i].assessmentPeriods]]

ConnectsTerms(input) == \A i \in DOMAIN input : input[i].calendarTermId \in TermIds

\* academicTerm.term.startDate / endDate: the dates of the calendar term
CalendarTermDates(calendarTermId) ==
    IF calendarTermId = "T1" THEN <<"2025-01-06", "2025-03-28">>
    ELSE <<"2025-04-07", "2025-06-27">>

\* ids of ClassGroupTermSettings rows: generated by the store, or the
\* `${classGroupId}_${programTermId}` that updateTermSettings asks for
SettingsId(kind, n, classGroupId, programTermId) ==
    [kind |-> kind, n |-> n, classGroupId |-> classGroupId, programTermId |-> programTermId]

TermSettingsRow(id, classGroupId, programTermId, isCustomized, customSettings) ==
    [id |-> id, classGroupId |-> classGroupId, programTermId |-> programTermId,
     isCustomized |-> isCustomized, customSettings |-> customSettings]

\* createProgramTerms: a new term structure of the program with its terms,
\* then, with no transaction, one term-settings row (no customSettings,
\* isCustomized at its default) for every class group of the program; the
\* rows are created side by side, each on its own (`failing`: the class
\* groups whose create throws)
createProgramTerms(pt, settingsRows, programId, input, failAt, failing) ==
    LET newId == NewStructureIds[Len(pt.structures) + 1]
        created == [pt EXCEPT
                      !.structures = Append(@, [id |-> newId, programId |-> programId,
                                                academicTerms |->
                                                    createAcademicTerms(pt.termSeq, input)]),
                      !.termSeq = @ + Len(input)]
        groups == findClassGroups(programId)
        made == { TermSettingsRow(SettingsId("auto", Cardinality(settingsRows) + i, "", ""),
                                  groups[i], newId, FALSE, NoCustomSettings)
                  : i \in { j \in DOMAIN groups : groups[j] \notin failing } }
    IN  IF failAt = 1 THEN [pt |-> pt, rows |-> settingsRows, err |-> "DbError"]
        ELSE IF programId \notin {"p1", "p2", "p3"} \/ ~ConnectsTerms(input)
        THEN [pt |-> pt, rows |-> settingsRows, err |-> "RecordNotFound"]
        ELSE IF failAt = 2 THEN [pt |-> created, rows |-> settingsRows, err |-> "DbError"]
        ELSE [pt |-> created, rows |-> settingsRows \cup made,
              err |-> IF \E i \in DOMAIN groups : groups[i] \in failing
                      THEN "DbError" ELSE "none"]

\* The mutated query: every ACTIVE class group of the program, whatever its
\* rows hold
propagateTargetsAnyRows(settingsRows, programId) ==
    { g \in { findClassGroups(programId)[i] : i \in DOMAIN findClassGroups(programId) } :
        ClassGroupStatus(g) = "ACTIVE" }

\* classGroup.findMany({ where: { programId, status: ACTIVE, termSettings:
\* { every: { customSettings: { equals: JsonNull } } } } })
propagateTargets(settingsRows, programId) ==
    { g \in { findClassGroups(programId)[i] : i \in DOMAIN findClassGroups(programId) } :
        /\ ClassGroupStatus(g) = "ACTIVE"
        /\ \A r \in settingsRows : r.classGroupId = g => ~Truthy(r.customSettings) }

\* propagateTermUpdatesToClassGroups(programId, terms), every call through
\* the plain client: one updateMany per class group found, started side by
\* side, writing JSON.stringify({ terms }) into the group's rows whose
\* customSettings is null; isCustomized is not written
propagateTermUpdatesToClassGroups(settingsRows, programId, academicTerms, failAt, failing) ==
    LET targets == propagateTargets(settingsRows, programId)
        payload == CustomSettings("string", TRUE,
                       [i \in DOMAIN academicTerms |->
                           CustomTerm(academicTerms[i].id,
                                      CalendarTermDates(academicTerms[i].calendarTermId)[1],
                                      CalendarTermDates(academicTerms[i].calendarTermId)[2],
                                      academicTerms[i].assessmentPeriods)])
    IN  IF failAt = 4 THEN [rows |-> settingsRows, err |-> "DbError"]
        ELSE [rows |-> { IF /\ r.classGroupId \in targets \ failing
                            /\ ~Truthy(r.customSettings)
                         THEN [r EXCEPT !.customSettings = payload] ELSE r
                         : r \in settingsRows },
              err |-> IF targets \cap failing # {} THEN "DbError" ELSE "none"]

\* programTermStructure.findFirst({ where: { programId } })
findProgramTerm(pt, programId) ==
    { i \in DOMAIN pt.structures :
        /\ pt.structures[i].programId = programId
        /\ \A j \in 1 .. i - 1 : pt.structures[j].programId # programId }

\* updateProgramTermSystem(programId, { terms, propagateToClassGroups }) of
\* TermManagementService.ts:139-222: inside db.$transaction the periods and
\* the terms of the structure are deleted and the new ones created through
\* the transaction client; the propagation runs inside the callback but on
\* the plain client.  What the transaction wrote is discarded when the
\* callback throws; what the plain client wrote is not.
updateProgramTermSystem(pt, settingsRows, programId, input, propagate, failAt, failing) ==
    LET found == findProgramTerm(pt, programId)
        k == CHOOSE i \in found : TRUE
        replaced == [pt EXCEPT !.structures[k].academicTerms =
                                   createAcademicTerms(pt.termSeq, input),
                               !.termSeq = @ + Len(input)]
        txErr == IF failAt \in 1 .. 3 THEN "DbError"
                 ELSE IF ~ConnectsTerms(input) THEN "RecordNotFound"
                 ELSE "none"
        sent == IF txErr = "none" /\ propagate
                THEN propagateTermUpdatesToClassGroups(settingsRows, programId,
                         replaced.structures[k].academicTerms, failAt, failing)
                ELSE [rows |-> settingsRows, err |-> txErr]
    IN  IF found = {}
        THEN [pt |-> pt, rows |-> settingsRows,
              err |-> "Error:Program term structure not found"]
        ELSE [pt |-> IF sent.err = "none" THEN replaced
                     ELSE [pt EXCEPT !.termSeq = IF txErr = "none" THEN replaced.termSeq
                                                 ELSE @],
              rows |-> sent.rows, err |-> sent.err]

\* TermManagementService.ts:557-621, the same call without a transaction:
\* one programTermStructure.update replaces the terms (deleteMany and
\* create nested in it), then the propagation runs
updateProgramTermSystemPlain(pt, settingsRows, programId, input, propagate, failAt, failing) ==
    LET found == findProgramTerm(pt, programId)
        k == CHOOSE i \in found : TRUE
        replaced == [pt EXCEPT !.structures[k].academicTerms =
                                   createAcademicTerms(pt.termSeq, input),
                               !.termSeq = @ + Len(input)]
        updErr == IF failAt \in 1 .. 3 THEN "DbError"
                  ELSE IF ~ConnectsTerms(input) THEN "RecordNotFound"
                  ELSE "none"
        sent == IF propagate
                THEN propagateTermUpdatesToClassGroups(settingsRows, programId,
                         replaced.structures[k].academicTerms, failAt, failing)
                ELSE [rows |-> settingsRows, err |-> "none"]
    IN  IF found = {}
        THEN [pt |-> pt, rows |-> settingsRows,
              err |-> "Error:Program term structure not found"]
        ELSE IF updErr # "none" THEN [pt |-> pt, rows |-> settingsRows, err |-> updErr]
        ELSE [pt |-> replaced, rows |-> sent.rows, err |-> sent.err]

\* ClassGroupService.updateTermSettings(classGroupId, programTermId,
\* customSettings): upsert of the row whose id is
\* `${classGroupId}_${programTermId}` with isCustomized = !!customSettings;
\* an undefined customSettings leaves the column of an existing row alone
upsertTermSettings(pt, settingsRows, classGroupId, programTermId, customSettings) ==
    LET id == SettingsId("composite", 0, classGroupId, programTermId)
    IN  IF \E r \in settingsRows : r.id = id
        THEN [rows |-> { IF r.id = id
                         THEN [r EXCEPT !.isCustomized = Truthy(customSettings),
                                        !.customSettings = IF Truthy(customSettings)
                                                           THEN customSettings ELSE @]
                         ELSE r : r \in settingsRows },
              err |-> "none"]
        ELSE IF \/ \A i \in DOMAIN ClassGroupOrder : ClassGroupOrder[i] # classGroupId
                \/ \A i \in DOMAIN pt.structures : pt.structures[i].id # programTermId
        THEN [rows |-> settingsRows, err |-> "ForeignKey"]
        ELSE [rows |-> settingsRows \cup
                         {TermSettingsRow(id, classGroupId, programTermId,
                                          Truthy(customSettings), customSettings)},
              err |-> "none"]

InitPropagate ==
    /\ Load(LifeStart)
    /\ enforceFK = TRUE
    /\ calcIn = [weights |-> DefaultPeriodWeights, subs |-> <<>>]
    /\ groupSettings = NoSettings /\ running = Idle
    /\ NoExt
    /\ lastOp = NoOp

PropagateFrame ==
    UNCHANGED <<classes, gradeBooks, subjectRecords, assessmentSystems, termResults,
                gradeHistory, enforceFK, calcIn, groupSettings, running, activityGrades,
                cache, now>>

CreateProgramTerms(programId, input, failAt, failing) ==
    /\ Len(termStructureRows.structures) < MaxStructures
    /\ termStructureRows.termSeq + Len(input) <= MaxTermSeq
    /\ \E r \in { createProgramTerms(termStructureRows, classGroupTermSettings, programId,
                                     input, failAt, failing) } :
          /\ termStructureRows' = r.pt
          /\ classGroupTermSettings' = r.rows
          /\ lastOp' = Op("createProgramTerms", <<programId, input>>,
                          r.err, NoResult)
    /\ PropagateFrame

UpdateProgramTermSystem(programId, input, propagate, failAt, failing) ==
    /\ termStructureRows.termSeq + Len(input) <= MaxTermSeq
    /\ \E r \in { updateProgramTermSystem(termStructureRows, classGroupTermSettings,
                                          programId, input, propagate, failAt, failing) } :
          /\ termStructureRows' = r.pt
          /\ classGroupTermSettings' = r.rows
          /\ lastOp' = Op("updateProgramTermSystem",
                          <<programId, input, propagate>>, r.err, NoResult)
    /\ PropagateFrame

UpdateProgramTermSystemPlain(programId, input, propagate, failAt, failing) ==
    /\ termStructureRows.termSeq + Len(input) <= MaxTermSeq
    /\ \E r \in { updateProgramTermSystemPlain(termStructureRows, classGroupTermSettings,
                                               programId, input, propagate, failAt,
                                               failing) } :
          /\ termStructureRows' = r.pt
          /\ classGroupTermSettings' = r.rows
          /\ lastOp' = Op("updateProgramTermSystem",
                          <<programId, input, propagate>>, r.err, NoResult)
    /\ PropagateFrame

UpsertTermSettings(classGroupId, programTermId, customSettings) ==
    /\ \E r \in { upsertTermSettings(termStructureRows, classGroupTermSettings, classGroupId,
                                     programTermId, customSettings) } :
          /\ classGroupTermSettings' = r.rows
          /\ lastOp' = Op("updateTermSettings", <<classGroupId, programTermId>>,
                          r.err, NoResult)
    /\ UNCHANGED termStructureRows
    /\ PropagateFrame

NextPropagate ==
    \/ \E p \in {"p1", "pX"}, t \in TermInputs, f \in 0 .. 2, x \in {{}, {"g4"}} :
          CreateProgramTerms(p, t, f, x)
    \/ \E p \in {"p1", "p2"}, t \in TermInputs, b \in BOOLEAN, f \in {0, 2, 4},
          x \in {{}, {"g4"}} : UpdateProgramTermSystem(p, t, b, f, x)
    \/ \E p \in {"p1", "p2"}, t \in TermInputs, b \in BOOLEAN, f \in {0, 3, 4},
          x \in {{}, {"g4"}} : UpdateProgramTermSystemPlain(p, t, b, f, x)
    \/ \E g \in {"g1", "g4", "gX"}, s \in {"ts1"},
          c \in {NoCustomSettings, CustomSettings("object", TRUE, <<>>)} :
          UpsertTermSettings(g, s, c)
    \/ \E p \in {JsonNull, EmptyObject} : UpdateClassGroupSettings(p)

SpecPropagate == InitPropagate /\ [][NextPropagate]_vars

\* C22: a propagating updateProgramTermSystem that fails leaves the
\* program's academic terms and every ClassGroupTermSettings row as they
\* were before the call
C22_UpdateAllOrNothing ==
    [][(/\ lastOp'.op = "updateProgramTermSystem"
        /\ lastOp'.args[3]
        /\ lastOp'.error # "none")
       => /\ termStructureRows'.structures = termStructureRows.structures
          /\ classGroupTermSettings' = classGroupTermSettings]_vars

\* C29: on every override row of a class group, of its assessment settings
\* and of its term settings, isCustomized is true exactly when
\* customSettings is not null
C29_CustomizedIffPayload ==
    /\ \A r \in classGroupTermSettings : r.isCustomized <=> Truthy(r.customSettings)
    /\ \A i \in DOMAIN groupSettings.assessment :
          groupSettings.assessment[i].isCustomized
              <=> Truthy(groupSettings.assessment[i].customSettings)

\* C30: a propagation writes only rows whose customSettings is null, of
\* ACTIVE class groups of the program all of whose rows have a null
\* customSettings; no row appears or disappears, and a row that holds a
\* customSettings is left as it is
C30_PropagationFrame ==
    [][lastOp'.op = "updateProgramTermSystem"
       => /\ { r.id : r \in classGroupTermSettings' } = { r.id : r \in classGroupTermSettings }
          /\ \A r \in classGroupTermSettings :
                r \notin classGroupTermSettings'
                => /\ ~Truthy(r.customSettings)
                   /\ GroupProgram(r.classGroupId) = lastOp'.args[1]
                   /\ ClassGroupStatus(r.classGroupId) = "ACTIVE"
                   /\ \A q \in classGroupTermSettings :
                         q.classGroupId = r.classGroupId => ~Truthy(q.customSettings)]_vars

\* a propagation has just written the row of one class group while another
\* class group of the program keeps the customSettings it was given
C30_Witness ==
    /\ lastOp.op = "updateProgramTermSystem" /\ lastOp.args[3] /\ lastOp.error = "none"
    /\ \E r \in classGroupTermSettings :
          /\ r.classGroupId = "g1"
          /\ r.customSettings.fmt = "string"
          /\ Len(r.customSettings.terms) = Len(lastOp.args[2])
          /\ Len(r.customSettings.terms) > 0
    /\ \E r, q \in classGroupTermSettings :
          /\ r.classGroupId = "g4" /\ q.classGroupId = "g4"
          /\ r.customSettings.fmt = "object"
          /\ ~Truthy(q.customSettings)

\* ------------------------------------------------------------------------
\* CacheManager: a Map of entries { value, timestamp } with a time to live
\* and a maximal size
\* ------------------------------------------------------------------------
\* gradingConfig.caching.maxSize and .ttl (in clock ticks), and the last
\* tick of the clock
MaxSize == 2
TTL == 1
MaxNow == 3

CacheKeys == {"k1", "k2", "k3"}
CacheValues == {"v1", "v2"}

CacheEntry(key, value, timestamp) == [key |-> key, value |-> value, timestamp |-> timestamp]

\* this.cache.get(key): the positions of the key (none or one)
entryOf(entries, key) == { i \in DOMAIN entries : entries[i].key = key }

\* this.cache.delete(key)
cacheDelete(entries, key) == SelectSeq(entries, LAMBDA e : e.key # key)

\* The mutated choice: the entry with the newest timestamp
newestKey(entries) ==
    entries[CHOOSE i \in DOMAIN entries :
              /\ \A j \in DOMAIN entries : entries[i].timestamp >= entries[j].timestamp
              /\ \A j \in 1 .. i - 1 : entries[j].timestamp < entries[i].timestamp].key

\* Array.from(entries).sort by timestamp, [0][0]: the first entry, in the
\* Map's insertion order, among those with the least timestamp
oldestKey(entries) ==
    entries[CHOOSE i \in DOMAIN entries :
              /\ \A j \in DOMAIN entries : entries[i].timestamp <= entries[j].timestamp
              /\ \A j \in 1 .. i - 1 : entries[j].timestamp > entries[i].timestamp].key

\* this.cache.set(key, entry): a key already there keeps its place
mapSet(entries, entry) ==
    IF entryOf(entries, entry.key) # {}
    THEN [i \in DOMAIN entries |-> IF entries[i].key = entry.key THEN entry ELSE entries[i]]
    ELSE Append(entries, entry)

\* set(key, value)
cacheSet(entries, key, value, time) ==
    mapSet(IF Len(entries) >= MaxSize THEN cacheDelete(entries, oldestKey(entries))
           ELSE entries,
           CacheEntry(key, value, time))

\* The mutated get: an entry expires as soon as TTL has elapsed
cacheGetEarly(entries, key, time) ==
    LET found == entryOf(entries, key)
        entry == entries[CHOOSE i \in found : TRUE]
    IN  IF found = {} THEN [entries |-> entries, value |-> NULL]
        ELSE IF time - entry.timestamp >= TTL
        THEN [entries |-> cacheDelete(entries, key), value |-> NULL]
        ELSE [entries |-> entries, value |-> entry.value]

\* get(key)
cacheGet(entries, key, time) ==
    LET found == entryOf(entries, key)
        entry == entries[CHOOSE i \in found : TRUE]
    IN  IF found = {} THEN [entries |-> entries, value |-> NULL]
        ELSE IF time - entry.timestamp > TTL
        THEN [entries |-> cacheDelete(entries, key), value |-> NULL]
        ELSE [entries |-> entries, value |-> entry.value]

InitCache ==
    /\ Load(LifeStart)
    /\ enforceFK = TRUE
    /\ calcIn = [weights |-> DefaultPeriodWeights, subs |-> <<>>]
    /\ groupSettings = NoSettings /\ running = Idle
    /\ NoExt
    /\ lastOp = NoOp

CacheFrame ==
    UNCHANGED <<classes, gradeBooks, subjectRecords, assessmentSystems, termResults,
                gradeHistory, enforceFK, calcIn, groupSettings, running, activityGrades,
                termStructureRows, classGroupTermSettings>>

\* the call returns nothing; the key it deleted is noted as its result
CacheSet(key, value) ==
    /\ cache' = cacheSet(cache, key, value, now)
    /\ lastOp' = Op("set", <<key, value>>, "none",
                    IF Len(cache) >= MaxSize THEN oldestKey(cache) ELSE NULL)
    /\ UNCHANGED now /\ CacheFrame

CacheGet(key) ==
    /\ \E r \in { cacheGet(cache, key, now) } :
          /\ cache' = r.entries
          /\ lastOp' = Op("get", <<key>>, "none", r.value)
    /\ UNCHANGED now /\ CacheFrame

CacheInvalidate(key) ==
    /\ cache' = cacheDelete(cache, key)
    /\ lastOp' = Op("invalidate", <<key>>, "none", NULL)
    /\ UNCHANGED now /\ CacheFrame

CacheClear ==
    /\ cache' = <<>>
    /\ lastOp' = Op("clear", <<>>, "none", NULL)
    /\ UNCHANGED now /\ CacheFrame

CacheGetSize ==
    /\ lastOp' = Op("getSize", <<>>, "none", Len(cache))
    /\ UNCHANGED <<cache, now>> /\ CacheFrame

\* time passes between two calls
Tick ==
    /\ now < MaxNow
    /\ now' = now + 1
    /\ lastOp' = NoOp
    /\ UNCHANGED cache /\ CacheFrame

NextCache ==
    \/ \E k \in CacheKeys, v \in CacheValues : CacheSet(k, v)
    \/ \E k \in CacheKeys : CacheGet(k)
    \/ \E k \in CacheKeys : CacheInvalidate(k)
    \/ CacheClear
    \/ CacheGetSize
    \/ Tick

SpecCache == InitCache /\ [][NextCache]_vars

CachedKeys(entries) == { entries[i].key : i \in DOMAIN entries }
CachedEntries(entries) == { entries[i] : i \in DOMAIN entries }

\* C24: the cache never holds more than maxSize entries; a set on a full
\* cache removes exactly one entry, one with the oldest timestamp, a set on
\* a cache that is not full removes none, and either leaves the entries of
\* the other keys as they are
C24_BoundedEviction ==
    /\ [](Len(cache) <= MaxSize /\ Cardinality(CachedKeys(cache)) = Len(cache))
    /\ [][lastOp'.op = "set"
          => LET key == lastOp'.args[1]
             IN  IF Len(cache) >= MaxSize
                 THEN \E i \in DOMAIN cache :
                        /\ \A j \in DOMAIN cache : cache[i].timestamp <= cache[j].timestamp
                        /\ CachedKeys(cache') = (CachedKeys(cache) \ {cache[i].key}) \cup {key}
                        /\ \A e \in CachedEntries(cache) :
                              e.key \notin {cache[i].key, key} => e \in CachedEntries(cache')
                 ELSE /\ CachedKeys(cache') = CachedKeys(cache) \cup {key}
                      /\ \A e \in CachedEntries(cache) :
                            e.key # key => e \in CachedEntries(cache')]_vars

\* a set of a new key on a full cache has just evicted the oldest entry,
\* which was not the first one put in: the key put in first was set again
\* later and is still there
C24_Witness ==
    /\ lastOp.op = "set" /\ lastOp.args[1] = "k3" /\ lastOp.result = "k2"
    /\ Len(cache) = MaxSize
    /\ cache[1].key = "k1" /\ cache[1].timestamp > 0
    /\ cache[Len(cache)].key = "k3"
    /\ "k2" \notin CachedKeys(cache)

\* C25: get returns the value of the key's entry while no more than TTL has
\* passed since its timestamp, and null, removing the entry, once more has
\* passed; without an entry it returns null; an entry is what the last set
\* of its key made it (value, time of the set), and only a set brings a key
\* into the cache
C25_GetWithinTTL ==
    /\ [][lastOp'.op = "get"
          => LET key == lastOp'.args[1]
                 found == entryOf(cache, key)
             IN  IF found = {} THEN lastOp'.result = NULL /\ cache' = cache
                 ELSE LET entry == cache[CHOOSE i \in found : TRUE]
                      IN  IF now - entry.timestamp <= TTL
                          THEN lastOp'.result = entry.value /\ cache' = cache
                          ELSE /\ lastOp'.result = NULL
                               /\ key \notin CachedKeys(cache')
                               /\ CachedEntries(cache') = CachedEntries(cache) \ {entry}]_vars
    /\ [][lastOp'.op = "set"
          => CacheEntry(lastOp'.args[1], lastOp'.args[2], now) \in CachedEntries(cache')]_vars
    /\ [][\A e \in CachedEntries(cache') :
             \/ e \in CachedEntries(cache)
             \/ lastOp'.op = "set" /\ e.key = lastOp'.args[1]]_vars

\* a get has just returned the value set exactly TTL ago over an earlier
\* value of the key
C25_Witness ==
    /\ lastOp.op = "get" /\ lastOp.result = "v2"
    /\ \E i \in DOMAIN cache :
          /\ cache[i].key = lastOp.args[1]
          /\ cache[i].value = "v2"
          /\ cache[i].timestamp > 0
          /\ now - cache[i].timestamp = TTL

\* ------------------------------------------------------------------------
\* TermStructureService.assignTermStructureToClass: a class and its grade
\* book are moved to a term structure
\* ------------------------------------------------------------------------
\* gradeBook.update({ where: { classId }, data: { termStructureId } })
gradeBookUpdate(ctx, via, classId, termStructureId) ==
    LET SetTs(rows) == { IF g.classId = classId
                         THEN [g EXCEPT !.termStructureId = termStructureId]
                         ELSE g : g \in rows }
    IN  IF ~GradeBookOfClass(View(ctx, via), classId) THEN Throw(ctx, "RecordNotFound")
        ELSE [ctx EXCEPT !.t.gradeBooks = SetTs(@),
                         !.c.gradeBooks = IF via = "db" THEN SetTs(@) ELSE @]

\* assignTermStructureToClass(classId, termStructureId): two updates through
\* the plain client, the class's and then the grade book's
assignTermStructureToClass(db, classId, termStructureId, failAt) ==
    LET s1 == Only({ Step(ctx, 1, failAt, classUpdate(ctx, "db", classId, termStructureId)) : ctx \in {Begin(db)} })
        s2 == Only({ Step(ctx, 2, failAt, gradeBookUpdate(ctx, "db", classId, termStructureId)) : ctx \in {s1} })
    IN  Only({ [db |-> ctx.c, err |-> ctx.err] : ctx \in {s2} })

AssignTermStructureToClass(classId, termStructureId, failAt) ==
    /\ \E r \in { assignTermStructureToClass(Tables, classId, termStructureId, failAt) } :
           /\ Commit(r.db)
           /\ lastOp' = Op("assignTermStructureToClass", <<classId, termStructureId, failAt>>,
                           r.err, NoResult)
    /\ UNCHANGED <<enforceFK, calcIn, ext, groupSettings, running>>

\* the operations of the services that set a termStructureId: classes are
\* created with their grade books, grade books are made for classes that
\* have none, classes are moved to another term structure
NextAssign ==
    \/ \E g \in GroupArgs, f \in FailPoints : CreateClassWithInheritance(g, f)
    \/ \E c \in ClassArgs, f \in 0 .. 4 : InitializeGradeBook("V2", c, f)
    \/ \E c \in ClassArgs, ts \in TermStructureIds, f \in 0 .. 2 :
          AssignTermStructureToClass(c, ts, f)

SpecAssign == InitLife /\ [][NextAssign]_vars

\* C28: a class that has a grade book has the grade book's termStructureId.
C28_SameTermStructure ==
    \A c \in classes, g \in gradeBooks :
        g.classId = c.id => g.termStructureId = c.termStructureId

====
